---- MODULE Spec2Model ----
(***************************************************************************)
(* Model of the analytics core of the WindBorne balloon tracker            *)
(* (src/unnamed/part_001): density clustering, centroid (k-means)          *)
(* clustering with automatic k selection, silhouette scoring, convex hull  *)
(* and the coverage grid.                                                  *)
(*                                                                         *)
(* Conventions                                                             *)
(*  - A position is a tuple <<lat, lng>>; pos[1] is the JavaScript pos[0]  *)
(*    and pos[2] the JavaScript pos[1].  Altitude is never read by the     *)
(*    functions modelled here.                                             *)
(*  - JavaScript arrays are functions over 0..n-1, so that indices are the *)
(*    indices of the source.  Arrays that grow by push() are sequences.    *)
(*  - Coordinates handed to haversineDistance are fixed-point numbers in   *)
(*    units of 1/CoordScale degree, distances are whole kilometres.        *)
(***************************************************************************)
EXTENDS Integers, Sequences, FiniteSets, TLC

VARIABLES
    pc,                 \* position of the running function
    positions,          \* the snapshot's positions, array of <<lat, lng>>
    \* calculateClusteringMetrics (density clustering)
    visited, clusterAssignments, clusterCount, i, clusterId, seedSet, j,
    dbResult,
    \* kMeansCluster (centroid clustering for one k)
    kmCaller, k, centroids, assignments, oldAssignments, iterations, converged,
    kmcResult,
    \* performKMeansClustering (automatic k) and displayClusterStatistics
    kRange, kIdx, optimalK, bestScore, finalAssignments, finalCentroids,
    finalClusterSizes, silhouetteScores, inertiaValues, kMeansResults,
    clusterMetrics,
    kmcRuns,            \* history: what kMeansCluster returned, call after call
    \* calculateConvexHull
    lowestPoint, sortedPoints, hull, hi, hullResult,
    \* calculateCoverageMetrics
    grid, ci, covResult,
    \* displayAltitudeStatistics and calculateAltitudeTrend
    balloonData, currentTimeIndex, altitudes, altResult, trendData, ti,
    \* displayClusterStatistics called again: the result of the call before
    previousResults,
    \* an analysis function applied on its own: which one, and what it returned
    callee, fnResult,
    \* the page: the controls, the map layers, the chart and what a handler threw
    statisticsSelector, visualizeStats, timeSlider, markers, statsOverlays, statsChart,
    altitudeLegend, densityLegend, clusterLegend, coverageLegend, chartOptions,
    statsContent, uncaught, lastHandler

dbVars == <<visited, clusterAssignments, clusterCount, i, clusterId, seedSet, j, dbResult>>
kmcVars == <<kmCaller, k, centroids, assignments, oldAssignments, iterations, converged,
             kmcResult>>
pkmVars == <<kRange, kIdx, optimalK, bestScore, finalAssignments, finalCentroids,
             finalClusterSizes, silhouetteScores, inertiaValues, kMeansResults,
             clusterMetrics, kmcRuns>>
hullVars == <<lowestPoint, sortedPoints, hull, hi, hullResult>>
covVars == <<grid, ci, covResult>>
altVars == <<balloonData, currentTimeIndex, altitudes, altResult, trendData, ti>>
\* the variables outside the clustering functions
repVars == <<previousResults>>
fnVars == <<callee, fnResult>>
controlVars == <<statisticsSelector, visualizeStats, lastHandler>>
shownVars == <<timeSlider, markers, statsOverlays, statsChart, altitudeLegend, densityLegend,
               clusterLegend, coverageLegend, chartOptions, statsContent, uncaught>>
uiVars == <<controlVars, shownVars>>
auxVars == <<hullVars, covVars, altVars, repVars, fnVars, uiVars>>
vars == <<pc, positions, dbVars, kmcVars, pkmVars, auxVars>>

\* ------------------------------------------------------------------------
\* Bounds of the model
\* ------------------------------------------------------------------------
MaxDbPoints == 5        \* longest position list given to density clustering
MaxKmPoints == 3        \* longest position list given to kMeansCluster directly
MaxKmK == 3             \* largest k given to kMeansCluster directly
MaxHullPoints == 4      \* longest point list given to calculateConvexHull
MaxCovPoints == 2       \* longest position list given to calculateCoverageMetrics

\* ------------------------------------------------------------------------
\* JavaScript helpers
\* ------------------------------------------------------------------------
Abs(x) == IF x < 0 THEN -x ELSE x
Min(a, b) == IF a < b THEN a ELSE b
Max(a, b) == IF a > b THEN a ELSE b

\* array of length n with every entry v: new Array(n).fill(v)
ArrayFill(n, v) == [x \in 0..(n - 1) |-> v]
ArrayLen(a) == Cardinality(DOMAIN a)
\* all arrays of length n over the set S
ArraysOf(n, S) == [0..(n - 1) -> S]

\* ------------------------------------------------------------------------
\* haversineDistance (part_001:1018-1036)
\*
\* Model positions lie on the equator (lat1 = lat2 = 0).  There
\*   a = sin^2(dLon/2),  c = 2*atan2(|sin(dLon/2)|, |cos(dLon/2)|)
\* is the great-circle angle: |dLon| folded at 180 degrees (the
\* antimeridian wrap-around the formula performs implicitly), and the
\* distance is R * c.  Longitudes are in units of 1/CoordScale degree and
\* the result is in whole kilometres: R * pi / 180 = 111.195 km per degree.
\* One unit is more than 9 km, so flooring keeps both order and equality.
\* ------------------------------------------------------------------------
CoordScale == 12
MetresPerDegree == 111195       \* R * pi / 180 with R = 6371 km, in metres

haversineDistance(lat1, lon1, lat2, lon2) ==
    LET dLon == Abs(lon2 - lon1) % (360 * CoordScale)
        arc  == IF dLon > 180 * CoordScale THEN 360 * CoordScale - dLon ELSE dLon
    IN  (arc * MetresPerDegree) \div (CoordScale * 1000)

\* a position in whole degrees as fixed-point coordinates
Fx(deg) == deg * CoordScale

\* ------------------------------------------------------------------------
\* calculateClusteringMetrics (part_001:1421-1529): density clustering
\* ------------------------------------------------------------------------
epsilon == 500
minPoints == 3
IndexScale == 1000      \* the isolation index is in units of 1/IndexScale

\* getNeighbors (part_001:1442-1459): indices within epsilon, ascending
RECURSIVE NeighborsFrom(_, _, _)
NeighborsFrom(pos, pointIndex, x) ==
    IF x >= ArrayLen(pos) THEN <<>>
    ELSE LET rest == NeighborsFrom(pos, pointIndex, x + 1)
         IN  IF x # pointIndex
                /\ haversineDistance(Fx(pos[pointIndex][1]), Fx(pos[pointIndex][2]),
                                     Fx(pos[x][1]), Fx(pos[x][2])) <= epsilon
             THEN <<x>> \o rest
             ELSE rest

getNeighbors(pos, pointIndex) == NeighborsFrom(pos, pointIndex, 0)

SeqIncludes(s, x) == \E n \in 1..Len(s) : s[n] = x

\* the inner loop at 1487-1491: push the unvisited neighbours not yet in seedSet
RECURSIVE PushNew(_, _, _, _)
PushNew(seeds, nbrs, vis, n) ==
    IF n > Len(nbrs) THEN seeds
    ELSE IF ~vis[nbrs[n]] /\ ~SeqIncludes(seeds, nbrs[n])
         THEN PushNew(Append(seeds, nbrs[n]), nbrs, vis, n + 1)
         ELSE PushNew(seeds, nbrs, vis, n + 1)

\* is this neighbour list long enough to seed / extend a cluster (1468, 1485)
IsCore_Mutant(nbrs) == Len(nbrs) >= minPoints - 2
IsCore(nbrs) == Len(nbrs) >= minPoints - 1

\* "Add to cluster if not already in one" (1495-1498)
AddToCluster_Mutant(assign, point, cid) ==
    IF assign[point] = -1 THEN [assign EXCEPT ![point] = cid + 1] ELSE assign
AddToCluster(assign, point, cid) ==
    IF assign[point] = -1 THEN [assign EXCEPT ![point] = cid] ELSE assign

\* cluster sizes and noise count (1503-1513)
CountIn(a, v) == Cardinality({x \in DOMAIN a : a[x] = v})
ClusterSizesOf(assign, count) == [c \in 0..(count - 1) |-> CountIn(assign, c)]

RECURSIVE SumArray(_, _)
SumArray(a, n) == IF n <= 0 THEN 0 ELSE a[n - 1] + SumArray(a, n - 1)

RECURSIVE MaxArray(_, _)
MaxArray(a, n) == IF n <= 1 THEN a[0] ELSE Max(a[n - 1], MaxArray(a, n - 1))

NoResult == [returned |-> FALSE]

\* the variables of a function that is not running
KmcIdle ==
    /\ centroids = <<>> /\ assignments = <<>>
    /\ oldAssignments = <<>> /\ iterations = 0 /\ converged = FALSE
    /\ kmcResult = NoResult
PkmIdle ==
    /\ kRange = <<>> /\ kIdx = 0 /\ optimalK = 0 /\ bestScore = 0
    /\ finalAssignments = <<>> /\ finalCentroids = <<>> /\ finalClusterSizes = <<>>
    /\ silhouetteScores = <<>> /\ inertiaValues = <<>> /\ kMeansResults = NoResult
    /\ clusterMetrics = NoResult /\ kmcRuns = <<>>

DbIdle ==
    /\ visited = <<>> /\ clusterAssignments = <<>> /\ clusterCount = 0 /\ i = 0
    /\ clusterId = 0 /\ seedSet = <<>> /\ j = 0 /\ dbResult = NoResult
HullIdle ==
    /\ lowestPoint = <<>> /\ sortedPoints = <<>> /\ hull = <<>> /\ hi = 0
    /\ hullResult = NoResult
CovIdle == grid = <<>> /\ ci = 0 /\ covResult = NoResult
AltIdle ==
    /\ balloonData = <<>> /\ currentTimeIndex = 0 /\ altitudes = <<>>
    /\ altResult = NoResult /\ trendData = <<>> /\ ti = 0
RepIdle == previousResults = NoResult
FnIdle == callee = "none" /\ fnResult = NoResult
\* null, as the value of a legend, of the chart and of the chart options
null == [set |-> FALSE]
UiIdle ==
    /\ statisticsSelector = "basic" /\ visualizeStats = FALSE /\ lastHandler = "none"
    /\ timeSlider = 0 /\ markers = 0 /\ statsOverlays = {} /\ statsChart = null
    /\ altitudeLegend = null /\ densityLegend = null /\ clusterLegend = null
    /\ coverageLegend = null /\ chartOptions = null /\ statsContent = null
    /\ uncaught = "none"
AuxIdle == HullIdle /\ CovIdle /\ AltIdle /\ RepIdle /\ FnIdle /\ UiIdle
\* the variables of the other functions stay as they are
DbOthersUnchanged == UNCHANGED <<kmcVars, pkmVars, auxVars>>
HullOthersUnchanged ==
    UNCHANGED <<dbVars, kmcVars, pkmVars, covVars, altVars, repVars, fnVars, uiVars>>
CovOthersUnchanged ==
    UNCHANGED <<dbVars, kmcVars, pkmVars, hullVars, altVars, repVars, fnVars, uiVars>>

\* entry: the empty-list early return (1422-1429) or the initialisation (1436-1439)
DbEnter ==
    /\ pc = "db_enter"
    /\ IF ArrayLen(positions) = 0
       THEN /\ dbResult' = [returned |-> TRUE, clusterCount |-> 0, avgClusterSizeNum |-> 0,
                            isolationIndex |-> 0,
                            noiseCount |-> 0, largestCluster |-> 0,
                            hasAssignments |-> FALSE]
            /\ pc' = "db_done"
            /\ UNCHANGED <<visited, clusterAssignments, clusterCount, i>>
       ELSE /\ visited' = ArrayFill(ArrayLen(positions), FALSE)
            /\ clusterAssignments' = ArrayFill(ArrayLen(positions), -1)
            /\ clusterCount' = 0
            /\ i' = 0
            /\ dbResult' = dbResult
            /\ pc' = "db_outer"
    /\ UNCHANGED <<positions, clusterId, seedSet, j>>
    /\ DbOthersUnchanged

\* outer loop, a point already visited (1463)
DbSkipVisited ==
    /\ pc = "db_outer"
    /\ i < ArrayLen(positions)
    /\ visited[i]
    /\ i' = i + 1
    /\ UNCHANGED <<pc, positions, visited, clusterAssignments, clusterCount,
                   clusterId, seedSet, j, dbResult>>
    /\ DbOthersUnchanged

\* outer loop, too few neighbours: mark as noise (1465-1470)
DbMarkNoise ==
    /\ pc = "db_outer"
    /\ i < ArrayLen(positions)
    /\ ~visited[i]
    /\ ~IsCore(getNeighbors(positions, i))
    /\ visited' = [visited EXCEPT ![i] = TRUE]
    /\ clusterAssignments' = [clusterAssignments EXCEPT ![i] = -1]
    /\ i' = i + 1
    /\ UNCHANGED <<pc, positions, clusterCount, clusterId, seedSet, j, dbResult>>
    /\ DbOthersUnchanged

\* outer loop, enough neighbours: start a new cluster (1465-1477)
DbStartCluster ==
    /\ pc = "db_outer"
    /\ i < ArrayLen(positions)
    /\ ~visited[i]
    /\ IsCore(getNeighbors(positions, i))
    /\ visited' = [visited EXCEPT ![i] = TRUE]
    /\ clusterId' = clusterCount
    /\ clusterCount' = clusterCount + 1
    /\ clusterAssignments' = [clusterAssignments EXCEPT ![i] = clusterCount]
    /\ seedSet' = getNeighbors(positions, i)
    /\ j' = 0
    /\ pc' = "db_expand"
    /\ UNCHANGED <<positions, i, dbResult>>
    /\ DbOthersUnchanged

\* one iteration of the expansion loop (1478-1499)
DbExpand ==
    /\ pc = "db_expand"
    /\ j < Len(seedSet)
    /\ LET currentPoint == seedSet[j + 1]
           pointNeighbors == getNeighbors(positions, currentPoint)
       IN  /\ IF ~visited[currentPoint]
              THEN /\ visited' = [visited EXCEPT ![currentPoint] = TRUE]
                   /\ seedSet' = IF IsCore(pointNeighbors)
                                 THEN PushNew(seedSet, pointNeighbors, visited', 1)
                                 ELSE seedSet
              ELSE UNCHANGED <<visited, seedSet>>
           /\ clusterAssignments' = AddToCluster(clusterAssignments, currentPoint, clusterId)
    /\ j' = j + 1
    /\ UNCHANGED <<pc, positions, clusterCount, i, clusterId, dbResult>>
    /\ DbOthersUnchanged

\* the expansion loop ends, back to the outer loop
DbExpandDone ==
    /\ pc = "db_expand"
    /\ j >= Len(seedSet)
    /\ i' = i + 1
    /\ pc' = "db_outer"
    /\ UNCHANGED <<positions, visited, clusterAssignments, clusterCount,
                   clusterId, seedSet, j, dbResult>>
    /\ DbOthersUnchanged

\* the outer loop ends: sizes, noise count and the returned record (1503-1528)
DbFinish ==
    /\ pc = "db_outer"
    /\ i >= ArrayLen(positions)
    /\ LET clusterSizes == ClusterSizesOf(clusterAssignments, clusterCount)
           noiseCount == CountIn(clusterAssignments, -1)
       IN  dbResult' = [returned |-> TRUE,
                        clusterCount |-> clusterCount,
                        avgClusterSizeNum |->
                            IF clusterCount > 0 THEN ArrayLen(positions) - noiseCount ELSE 0,
                        isolationIndex |->
                            IF ArrayLen(positions) > 0
                            THEN (noiseCount * IndexScale) \div ArrayLen(positions) ELSE 0,
                        noiseCount |-> noiseCount,
                        largestCluster |->
                            IF ArrayLen(clusterSizes) > 0
                            THEN MaxArray(clusterSizes, ArrayLen(clusterSizes)) ELSE 0,
                        hasAssignments |-> TRUE,
                        clusterAssignments |-> clusterAssignments,
                        clusterSizes |-> clusterSizes]
    /\ pc' = "db_done"
    /\ UNCHANGED <<positions, visited, clusterAssignments, clusterCount, i,
                   clusterId, seedSet, j>>
    /\ DbOthersUnchanged

\* longitudes (whole degrees, on the equator) of the density-clustering inputs:
\* 4 degrees apart is within epsilon (444 km), 8 degrees is not
DbLngs == {0, 4, 8, 12, 30}
DbInputs == UNION {ArraysOf(n, {<<0, l>> : l \in DbLngs}) : n \in 0..MaxDbPoints}

InitDbscan ==
    /\ pc = "db_enter"
    /\ positions \in DbInputs
    /\ visited = <<>>
    /\ clusterAssignments = <<>>
    /\ clusterCount = 0
    /\ i = 0
    /\ clusterId = 0
    /\ seedSet = <<>>
    /\ j = 0
    /\ dbResult = NoResult
    /\ kmCaller = "none" /\ k = 0
    /\ KmcIdle /\ PkmIdle /\ AuxIdle

NextDbscan ==
    \/ DbEnter
    \/ DbSkipVisited
    \/ DbMarkNoise
    \/ DbStartCluster
    \/ DbExpand
    \/ DbExpandDone
    \/ DbFinish

SpecDbscan == InitDbscan /\ [][NextDbscan]_vars

\* ------------------------------------------------------------------------
\* Properties of density clustering (checked under SpecDbscan)
\* ------------------------------------------------------------------------
DbReturned == pc = "db_done" /\ dbResult.returned
DbN == ArrayLen(positions)
DbAllNoise ==
    dbResult.hasAssignments =>
        \A x \in 0..(DbN - 1) : dbResult.clusterAssignments[x] = -1

\* C3: for every non-empty position list, in any order, the returned
\* assignment gives each point exactly one value that is -1 (noise) or a
\* cluster id in [0, clusterCount), and the cluster sizes plus the number of
\* noise points add up to N.
Thm_C3_DensityPartition ==
    (DbReturned /\ DbN > 0) =>
        /\ DOMAIN dbResult.clusterAssignments = 0..(DbN - 1)
        /\ \A x \in 0..(DbN - 1) :
              \/ dbResult.clusterAssignments[x] = -1
              \/ dbResult.clusterAssignments[x] \in 0..(dbResult.clusterCount - 1)
        /\ ArrayLen(dbResult.clusterSizes) = dbResult.clusterCount
        /\ SumArray(dbResult.clusterSizes, dbResult.clusterCount)
              + CountIn(dbResult.clusterAssignments, -1) = DbN

\* a run that returned at least one cluster together with a noise point
Wit_C3_ClusterAndNoise ==
    /\ DbReturned /\ DbN >= 4
    /\ dbResult.clusterCount >= 1
    /\ dbResult.noiseCount >= 1

\* C10 as stated: with N < 2 x minPoints the result has zero clusters and
\* every point is noise.
Orig_C10_FewerThanSixAllNoise ==
    (DbReturned /\ DbN < 2 * minPoints) =>
        (dbResult.clusterCount = 0 /\ DbAllNoise)

\* C10 amended: with N < minPoints (fewer than 3 points) the result has zero
\* clusters and every point is noise.
Thm_C10_FewerThanMinPointsAllNoise ==
    (DbReturned /\ DbN < minPoints) =>
        (dbResult.clusterCount = 0 /\ DbAllNoise)

\* two points within epsilon of each other were clustered: both are noise
Wit_C10_TwoNeighboursNoise ==
    /\ DbReturned /\ DbN = 2
    /\ Len(getNeighbors(positions, 0)) = 1
    /\ dbResult.clusterCount = 0
    /\ dbResult.clusterAssignments[0] = -1 /\ dbResult.clusterAssignments[1] = -1

\* two points of the list are within epsilon of each other
WithinEpsilon(x, y) ==
    haversineDistance(Fx(positions[x][1]), Fx(positions[x][2]),
                      Fx(positions[y][1]), Fx(positions[y][2])) <= epsilon

\* S is a group of 3 or more points that are pairwise within epsilon of each
\* other and of no other point of the list
IsolatedGroup(S) ==
    /\ Cardinality(S) >= minPoints
    /\ \A x \in S : \A y \in S : WithinEpsilon(x, y)
    /\ \A x \in S : \A y \in (0..(DbN - 1)) \ S : ~WithinEpsilon(x, y)

\* C11: every group of 3 or more points that are pairwise within epsilon of
\* each other and of no other point is assigned to one cluster that holds no
\* other point, so none of its points is noise; when the group is the whole
\* list that cluster is cluster 0 and the noise count is zero.  The input
\* lists range over every order of the points.
Thm_C11_IsolatedGroupOneCluster ==
    (DbReturned /\ DbN > 0) =>
        \A S \in SUBSET (0..(DbN - 1)) :
            IsolatedGroup(S) =>
                /\ \E c \in 0..(dbResult.clusterCount - 1) :
                      /\ \A x \in S : dbResult.clusterAssignments[x] = c
                      /\ \A y \in (0..(DbN - 1)) \ S : dbResult.clusterAssignments[y] # c
                /\ (S = 0..(DbN - 1)) =>
                      /\ \A x \in S : dbResult.clusterAssignments[x] = 0
                      /\ dbResult.clusterCount = 1
                      /\ dbResult.noiseCount = 0

\* an isolated group of three that is not at the front of the list was
\* clustered next to points outside it, and a whole list that is one group
\* went to cluster 0
Wit_C11_GroupBehindOtherPoints ==
    /\ DbReturned /\ DbN = 5
    /\ IsolatedGroup({1, 3, 4})
    /\ dbResult.clusterAssignments[1] = 0
    /\ dbResult.clusterAssignments[3] = 0
    /\ dbResult.clusterAssignments[4] = 0
    /\ dbResult.clusterAssignments[0] = -1

\* a core point: one with at least minPoints - 1 neighbours within epsilon
CorePoint(x) == IsCore(getNeighbors(positions, x))

\* C23: density clustering performs the standard density-reachability
\* expansion: a point first visited and marked noise that lies within
\* epsilon of a core point is later absorbed into that point's cluster, so
\* in the final result no noise point has a core point within epsilon,
\* whatever the order of the points.
Claim_C23_NoNoiseNextToCore ==
    (DbReturned /\ DbN > 0) =>
        \A x \in 0..(DbN - 1) :
            (dbResult.clusterAssignments[x] = -1) =>
                ~\E y \in (0..(DbN - 1)) \ {x} : CorePoint(y) /\ WithinEpsilon(x, y)

\* C28: with minPoints = 3 every cluster id in [0, clusterCount) has at least
\* 3 members in the final assignment, for every order of the points.
Thm_C28_ClustersHaveMinPoints ==
    (DbReturned /\ DbN > 0) =>
        \A c \in 0..(dbResult.clusterCount - 1) :
            /\ dbResult.clusterSizes[c] >= minPoints
            /\ Cardinality({x \in 0..(DbN - 1) : dbResult.clusterAssignments[x] = c})
                  >= minPoints

\* a cluster of exactly minPoints members was returned next to a point that
\* was visited before its seed and stayed noise
Wit_C28_SmallestClusterNextToNoise ==
    /\ DbReturned
    /\ dbResult.clusterCount = 1
    /\ dbResult.clusterSizes[0] = minPoints
    /\ \E x, y \in 0..(DbN - 1) :
          /\ x < y
          /\ WithinEpsilon(x, y)
          /\ dbResult.clusterAssignments[x] = -1
          /\ dbResult.clusterAssignments[y] = 0

\* ------------------------------------------------------------------------
\* kMeansCluster (part_001:2121-2217) and initializeCentroids (2220-2268)
\*
\* points and centroids are arrays of <<lat, lng>> in fixed-point
\* coordinates.  A JavaScript quotient of two numbers is kept in fixed
\* point: a mean coordinate in units of 1/CoordScale degree (exact for up
\* to four points, since CoordScale = lcm(1..4)), a mean distance in units
\* of 1/AvgScale km, a score or ratio in units of 1/ScoreScale.
\* ------------------------------------------------------------------------
maxIterations == 100
Infinity == 2000000000
AvgScale == 10
ScoreScale == 1000
NegInfinity == 0 - Infinity

PointsOf(pos) == [x \in DOMAIN pos |-> <<Fx(pos[x][1]), Fx(pos[x][2])>>]

\* the loop at 2150-2160: the first centroid at the least distance
RECURSIVE ClosestFrom(_, _, _, _, _)
ClosestFrom(point, cents, idx, minDistance, closestCentroid) ==
    IF idx >= ArrayLen(cents) THEN closestCentroid
    ELSE LET distance == haversineDistance(point[1], point[2], cents[idx][1], cents[idx][2])
         IN  IF distance < minDistance
             THEN ClosestFrom(point, cents, idx + 1, distance, idx)
             ELSE ClosestFrom(point, cents, idx + 1, minDistance, closestCentroid)

ClosestCentroid(point, cents) == ClosestFrom(point, cents, 0, Infinity, 0)

\* the assignment pass at 2146-2163
AssignPoints(points, cents) ==
    [x \in DOMAIN points |-> ClosestCentroid(points[x], cents)]

\* sum of one coordinate over the members of a cluster (2183-2188)
RECURSIVE SumCoord(_, _, _, _, _)
SumCoord(points, assign, cid, coord, n) ==
    IF n <= 0 THEN 0
    ELSE (IF assign[n - 1] = cid THEN points[n - 1][coord] ELSE 0)
         + SumCoord(points, assign, cid, coord, n - 1)

\* the centroid update at 2180-2196, in place: the first k centroids become
\* the mean of their members, a centroid without members keeps its value
UpdateCentroids_Mutant(points, assign, cents, kk) ==
    [c \in DOMAIN cents |->
        LET cnt == CountIn(assign, c)
        IN  IF c < kk /\ cnt > 0
            THEN <<SumCoord(points, assign, c, 1, ArrayLen(points)) \div (cnt + 1),
                   SumCoord(points, assign, c, 2, ArrayLen(points)) \div (cnt + 1)>>
            ELSE cents[c]]
UpdateCentroids(points, assign, cents, kk) ==
    [c \in DOMAIN cents |->
        LET cnt == CountIn(assign, c)
        IN  IF c < kk /\ cnt > 0
            THEN <<SumCoord(points, assign, c, 1, ArrayLen(points)) \div cnt,
                   SumCoord(points, assign, c, 2, ArrayLen(points)) \div cnt>>
            ELSE cents[c]]

\* final inertia (2202-2210)
RECURSIVE InertiaOf(_, _, _, _)
InertiaOf(points, assign, cents, n) ==
    IF n <= 0 THEN 0
    ELSE LET distance == haversineDistance(points[n - 1][1], points[n - 1][2],
                                           cents[assign[n - 1]][1], cents[assign[n - 1]][2])
         IN  distance * distance + InertiaOf(points, assign, cents, n - 1)

\* distance of a point to the nearest centroid chosen so far (2234-2242)
RECURSIVE MinDistanceFrom(_, _, _)
MinDistanceFrom(point, cents, idx) ==
    IF idx >= ArrayLen(cents) THEN Infinity
    ELSE Min(haversineDistance(point[1], point[2], cents[idx][1], cents[idx][2]),
             MinDistanceFrom(point, cents, idx + 1))

\* the indices the weighted draw at 2247-2262 can return over all values of
\* Math.random() in [0, 1): index x when its squared distance is positive
\* (cumulativeProbability first reaches randomValue there), and index 0
\* (randomValue = 0, or every probability NaN because the sum is 0, or the
\* cumulative sum staying below randomValue)
NextCentroidChoices(points, cents) ==
    {0} \cup {x \in DOMAIN points :
                 LET d == MinDistanceFrom(points[x], cents, 0) IN d * d > 0}

\* the seeding loop "for (let i = 1; i < k; i++)" (2231) is over
SeedingDone_Mutant(cents, kk) == ArrayLen(cents) > kk
SeedingDone(cents, kk) == ArrayLen(cents) >= kk

ArrayPush(a, v) == [x \in 0..ArrayLen(a) |-> IF x < ArrayLen(a) THEN a[x] ELSE v]
EmptyArray == ArrayFill(0, 0)

\* where kMeansCluster returns to
KmcReturnPc == IF kmCaller = "performKMeansClustering" THEN "pkm_score" ELSE "kmc_done"

\* entry: the early return for no positions or k <= 0 (2122-2128)
KmcEnter ==
    /\ pc = "kmc_enter"
    /\ IF ArrayLen(positions) = 0 \/ k <= 0
       THEN /\ kmcResult' = [returned |-> TRUE, assignments |-> EmptyArray,
                             centroids |-> EmptyArray, inertia |-> 0]
            /\ pc' = KmcReturnPc
       ELSE /\ kmcResult' = NoResult
            /\ pc' = "kmc_seed_first"
    /\ centroids' = EmptyArray
    /\ UNCHANGED <<positions, kmCaller, k, assignments, oldAssignments, iterations,
                   converged, dbVars, pkmVars, auxVars>>

\* the first centroid, uniformly at random (2226-2228); the loop variables
\* of kMeansCluster are initialised once seeding is over (2137-2141)
KmcSeedFirst ==
    /\ pc = "kmc_seed_first"
    /\ \E firstCentroid \in 0..(ArrayLen(positions) - 1) :
          centroids' = ArrayPush(EmptyArray, PointsOf(positions)[firstCentroid])
    /\ iterations' = 0
    /\ oldAssignments' = ArrayFill(ArrayLen(positions), -1)
    /\ assignments' = ArrayFill(ArrayLen(positions), -1)
    /\ converged' = FALSE
    /\ pc' = IF SeedingDone(centroids', k) THEN "kmc_assign" ELSE "kmc_seed_next"
    /\ UNCHANGED <<positions, kmCaller, k, kmcResult, dbVars, pkmVars, auxVars>>

\* one more centroid by the weighted draw (2231-2265)
KmcSeedNext ==
    /\ pc = "kmc_seed_next"
    /\ \E nextCentroid \in NextCentroidChoices(PointsOf(positions), centroids) :
          centroids' = ArrayPush(centroids, PointsOf(positions)[nextCentroid])
    /\ pc' = IF SeedingDone(centroids', k) THEN "kmc_assign" ELSE "kmc_seed_next"
    /\ UNCHANGED <<positions, kmCaller, k, assignments, oldAssignments, iterations,
                   converged, kmcResult, dbVars, pkmVars, auxVars>>

\* the loop test "while (!converged && iterations < maxIterations)" (2144)
LoopContinues_Mutant(conv, iters) == ~conv /\ iters <= maxIterations
LoopContinues(conv, iters) == ~conv /\ iters < maxIterations

\* loop test, assignment pass and convergence check (2144-2174)
KmcAssign ==
    /\ pc = "kmc_assign"
    /\ LoopContinues(converged, iterations)
    /\ assignments' = AssignPoints(PointsOf(positions), centroids)
    /\ converged' = (\A x \in 0..(ArrayLen(positions) - 1) :
                        assignments'[x] = oldAssignments[x])
    /\ pc' = IF converged' THEN "kmc_finish" ELSE "kmc_update"
    /\ UNCHANGED <<positions, kmCaller, k, centroids, oldAssignments, iterations,
                   kmcResult, dbVars, pkmVars, auxVars>>

\* remember the assignments and move the centroids (2176-2198)
KmcUpdate ==
    /\ pc = "kmc_update"
    /\ oldAssignments' = assignments
    /\ centroids' = UpdateCentroids(PointsOf(positions), assignments, centroids, k)
    /\ iterations' = iterations + 1
    /\ converged' = FALSE
    /\ pc' = IF LoopContinues(converged', iterations') THEN "kmc_assign" ELSE "kmc_finish"
    /\ UNCHANGED <<positions, kmCaller, k, assignments, kmcResult, dbVars, pkmVars, auxVars>>

\* inertia and return (2201-2216)
KmcFinish ==
    /\ pc = "kmc_finish"
    /\ kmcResult' = [returned |-> TRUE, assignments |-> assignments,
                     centroids |-> centroids,
                     inertia |-> InertiaOf(PointsOf(positions), assignments, centroids,
                                           ArrayLen(positions))]
    /\ pc' = KmcReturnPc
    /\ UNCHANGED <<positions, kmCaller, k, centroids, assignments, oldAssignments,
                   iterations, converged, dbVars, pkmVars, auxVars>>

\* inputs of a direct call: equatorial positions on both sides of the
\* antimeridian, any k up to MaxKmK
KmLngs == {-170, 0, 10, 170}
KmInputs == UNION {ArraysOf(n, {<<0, l>> : l \in KmLngs}) : n \in 0..MaxKmPoints}

InitKMeansCluster ==
    /\ pc = "kmc_enter"
    /\ positions \in KmInputs
    /\ k \in 0..MaxKmK
    /\ kmCaller = "direct"
    /\ KmcIdle /\ DbIdle /\ PkmIdle /\ AuxIdle

NextKMeansCluster ==
    \/ KmcEnter
    \/ KmcSeedFirst
    \/ KmcSeedNext
    \/ KmcAssign
    \/ KmcUpdate
    \/ KmcFinish

SpecKMeansCluster == InitKMeansCluster /\ [][NextKMeansCluster]_vars

\* the call runs to its end: JavaScript does not suspend a synchronous
\* function, so a step that can be taken is taken
SpecKMeansClusterRuns == SpecKMeansCluster /\ WF_vars(NextKMeansCluster)

\* ------------------------------------------------------------------------
\* Properties of kMeansCluster (checked under SpecKMeansCluster)
\* ------------------------------------------------------------------------
KmcReturned == pc = "kmc_done" /\ kmcResult.returned

\* C4: kMeansCluster(positions, k) with N >= 1 and k >= 1 returns, for every
\* outcome of the random seeding, exactly N assignments, each an integer in
\* [0, k), and exactly k centroids.
Thm_C4_AssignmentsInRange ==
    (KmcReturned /\ ArrayLen(positions) >= 1 /\ k >= 1) =>
        /\ DOMAIN kmcResult.assignments = 0..(ArrayLen(positions) - 1)
        /\ \A x \in 0..(ArrayLen(positions) - 1) : kmcResult.assignments[x] \in 0..(k - 1)
        /\ DOMAIN kmcResult.centroids = 0..(k - 1)

\* a run with three clusters asked for, two distinct positions, and more
\* than one cluster in use on return
Wit_C4_SeveralClustersUsed ==
    /\ KmcReturned /\ ArrayLen(positions) = 3 /\ k = 3
    /\ iterations >= 1
    /\ \E x, y \in 0..2 : kmcResult.assignments[x] # kmcResult.assignments[y]

\* C24: kMeansCluster always terminates: the refinement loop stops as soon as
\* an assignment pass changes no assignment (the pass that sets converged is
\* followed by the return), and otherwise after at most 100 assign/update
\* iterations; every call returns.
Thm_C24_KMeansTerminates ==
    /\ [](iterations <= 100)
    /\ [](converged => pc \in {"kmc_finish", "kmc_done"})
    /\ []((pc = "kmc_finish") => (converged \/ iterations = 100))
    /\ <>KmcReturned

\* a call that never converged returned after exactly 100 iterations
Wit_C24_StoppedByIterationLimit ==
    /\ KmcReturned /\ ArrayLen(positions) >= 1 /\ k >= 1
    /\ ~converged
    /\ iterations = 100

\* the distance of point x to returned centroid c
DistanceToCentroid(x, c) ==
    haversineDistance(PointsOf(positions)[x][1], PointsOf(positions)[x][2],
                      kmcResult.centroids[c][1], kmcResult.centroids[c][2])

InertiaNow(assign, cents) ==
    InertiaOf(PointsOf(positions), assign, cents, ArrayLen(positions))

\* C15: for a fixed k the inertia never increases from one refinement
\* iteration (assignment pass followed by centroid update) to the next: when
\* an iteration moves the centroids, the inertia of the new assignments with
\* the new centroids is at most the inertia the iteration before ended with.
Claim_C15_InertiaNeverIncreases ==
    [][(pc = "kmc_update" /\ iterations >= 1) =>
          InertiaNow(assignments, centroids') <= InertiaNow(oldAssignments, centroids)]_vars

\* ------------------------------------------------------------------------
\* calculateSilhouetteScore (part_001:2271-2293) and its two helpers
\*
\* An index past the end of a JavaScript array reads undefined.
\* ------------------------------------------------------------------------
Undefined == 0 - 1000000
At(a, x) == IF x \in DOMAIN a THEN a[x] ELSE Undefined

PosDistance(pos, x, y) ==
    haversineDistance(Fx(pos[x][1]), Fx(pos[x][2]), Fx(pos[y][1]), Fx(pos[y][2]))

RECURSIVE SumDistanceTo(_, _, _, _)
\* total distance from point x to the points whose index is in members
SumDistanceTo(pos, x, members, n) ==
    IF n <= 0 THEN 0
    ELSE (IF (n - 1) \in members THEN PosDistance(pos, x, n - 1) ELSE 0)
         + SumDistanceTo(pos, x, members, n - 1)

\* calculateAverageDistanceToSameCluster (2296-2315), in 1/AvgScale km
calculateAverageDistanceToSameCluster(pointIndex, pos, assign) ==
    LET pointCluster == At(assign, pointIndex)
        pointsInSameCluster == {x \in DOMAIN pos :
                                   x # pointIndex /\ At(assign, x) = pointCluster}
    IN  IF Cardinality(pointsInSameCluster) = 0 THEN 0
        ELSE (SumDistanceTo(pos, pointIndex, pointsInSameCluster, ArrayLen(pos)) * AvgScale)
                 \div Cardinality(pointsInSameCluster)

\* the loop over the clusters at 2323-2340
RECURSIVE NearestClusterFrom(_, _, _, _, _, _)
NearestClusterFrom(pointIndex, pos, assign, cents, cid, nearest) ==
    IF cid >= ArrayLen(cents) THEN nearest
    ELSE LET pointsInCluster == {x \in DOMAIN pos : At(assign, x) = cid}
         IN  IF cid = At(assign, pointIndex) \/ Cardinality(pointsInCluster) = 0
             THEN NearestClusterFrom(pointIndex, pos, assign, cents, cid + 1, nearest)
             ELSE NearestClusterFrom(pointIndex, pos, assign, cents, cid + 1,
                     Min(nearest,
                         (SumDistanceTo(pos, pointIndex, pointsInCluster, ArrayLen(pos))
                             * AvgScale) \div Cardinality(pointsInCluster)))

\* calculateAverageDistanceToNearestCluster (2318-2343), in 1/AvgScale km
calculateAverageDistanceToNearestCluster(pointIndex, pos, assign, cents) ==
    LET nearestClusterDistance ==
            NearestClusterFrom(pointIndex, pos, assign, cents, 0, Infinity)
    IN  IF nearestClusterDistance = Infinity THEN 0 ELSE nearestClusterDistance

\* the silhouette of one point (2279-2287), in 1/ScoreScale
SilhouetteValue(pointIndex, pos, assign, cents) ==
    LET a == calculateAverageDistanceToSameCluster(pointIndex, pos, assign)
        b == calculateAverageDistanceToNearestCluster(pointIndex, pos, assign, cents)
    IN  IF a = 0 /\ b = 0 THEN 0
        ELSE ((b - a) * ScoreScale) \div Max(a, b)

RECURSIVE SumSilhouette(_, _, _, _)
SumSilhouette(pos, assign, cents, n) ==
    IF n <= 0 THEN 0
    ELSE SilhouetteValue(n - 1, pos, assign, cents) + SumSilhouette(pos, assign, cents, n - 1)

calculateSilhouetteScore(pos, assign, cents) ==
    IF ArrayLen(pos) <= 1 \/ ArrayLen(cents) <= 1 THEN 0
    ELSE SumSilhouette(pos, assign, cents, ArrayLen(pos)) \div ArrayLen(pos)

\* ------------------------------------------------------------------------
\* performKMeansClustering (part_001:2060-2118)
\* ------------------------------------------------------------------------
\* Array.from({length: maxK - 1}, (_, i) => i + 2): a negative length gives
\* the empty array
KRangeOf(n) ==
    LET maxK == Min(20, n \div 10)
    IN  [x \in 1..Max(0, maxK - 1) |-> x + 1]

\* entry: the early return for no positions (2061-2068), or the candidate
\* range and the initial best (2072-2083)
PkmEnter ==
    /\ pc = "pkm_enter"
    /\ IF ArrayLen(positions) = 0
       THEN /\ kMeansResults' = [returned |-> TRUE, k |-> 0, assignments |-> EmptyArray,
                                 centroids |-> EmptyArray, clusterSizes |-> EmptyArray,
                                 hasScores |-> FALSE]
            /\ pc' = "pkm_returned"
            /\ UNCHANGED <<kRange, kIdx, optimalK, bestScore, finalAssignments,
                           finalCentroids, finalClusterSizes, silhouetteScores,
                           inertiaValues>>
       ELSE /\ kRange' = KRangeOf(ArrayLen(positions))
            /\ kIdx' = 0
            /\ optimalK' = 2
            /\ bestScore' = NegInfinity
            /\ finalAssignments' = EmptyArray
            /\ finalCentroids' = EmptyArray
            /\ finalClusterSizes' = EmptyArray
            /\ silhouetteScores' = <<>>
            /\ inertiaValues' = <<>>
            /\ pc' = "pkm_loop"
            /\ UNCHANGED kMeansResults
    /\ UNCHANGED <<positions, clusterMetrics, kmcRuns, dbVars, kmcVars, auxVars>>

\* the next candidate k: call kMeansCluster (2085-2087)
PkmNextK ==
    /\ pc = "pkm_loop"
    /\ kIdx < Len(kRange)
    /\ k' = kRange[kIdx + 1]
    /\ pc' = "kmc_enter"
    /\ UNCHANGED <<positions, kmCaller, centroids, assignments, oldAssignments,
                   iterations, converged, kmcResult, dbVars, pkmVars, auxVars>>

\* is this score the best so far (2095)
IsBetterScore_Mutant(score, best) == score >= best
IsBetterScore(score, best) == score > best

\* kMeansCluster returned: score the run and keep it if it is the best (2089-2106)
PkmScore ==
    /\ pc = "pkm_score"
    /\ LET silhouetteScore ==
               calculateSilhouetteScore(positions, kmcResult.assignments, kmcResult.centroids)
       IN  /\ silhouetteScores' = Append(silhouetteScores, silhouetteScore)
           /\ inertiaValues' = Append(inertiaValues, kmcResult.inertia)
           /\ IF IsBetterScore(silhouetteScore, bestScore)
              THEN /\ bestScore' = silhouetteScore
                   /\ optimalK' = k
                   /\ finalAssignments' = kmcResult.assignments
                   /\ finalCentroids' = kmcResult.centroids
                   /\ finalClusterSizes' = ClusterSizesOf(kmcResult.assignments, k)
              ELSE UNCHANGED <<bestScore, optimalK, finalAssignments, finalCentroids,
                               finalClusterSizes>>
    /\ kmcRuns' = Append(kmcRuns, kmcResult)
    /\ kIdx' = kIdx + 1
    /\ pc' = "pkm_loop"
    /\ UNCHANGED <<positions, kRange, kMeansResults, clusterMetrics, dbVars, kmcVars, auxVars>>

\* the loop is over: return (2109-2117)
PkmReturn ==
    /\ pc = "pkm_loop"
    /\ kIdx >= Len(kRange)
    /\ kMeansResults' = [returned |-> TRUE, k |-> optimalK,
                         assignments |-> finalAssignments,
                         centroids |-> finalCentroids,
                         clusterSizes |-> finalClusterSizes,
                         hasScores |-> TRUE,
                         silhouetteScores |-> silhouetteScores,
                         inertiaValues |-> inertiaValues,
                         kRange |-> kRange]
    /\ pc' = "pkm_returned"
    /\ UNCHANGED <<positions, kRange, kIdx, optimalK, bestScore, finalAssignments,
                   finalCentroids, finalClusterSizes, silhouetteScores, inertiaValues,
                   clusterMetrics, kmcRuns, dbVars, kmcVars, auxVars>>

\* ------------------------------------------------------------------------
\* calculateClusterMetrics (part_001:2346-2436) as called by
\* displayClusterStatistics (1999-2006)
\* ------------------------------------------------------------------------
VarScale == 10

\* the loop at 2362-2369 reads centroids[assignments[i]][0]: a TypeError
\* when assignments[i] is not an index of centroids
MetricsLoopThrows(pos, res) ==
    \E x \in 0..(ArrayLen(pos) - 1) : At(res.assignments, x) \notin DOMAIN res.centroids

RECURSIVE SumDistanceToCentroid(_, _, _, _)
SumDistanceToCentroid(pos, assign, cents, n) ==
    IF n <= 0 THEN 0
    ELSE haversineDistance(Fx(pos[n - 1][1]), Fx(pos[n - 1][2]),
                           cents[assign[n - 1]][1], cents[assign[n - 1]][2])
         + SumDistanceToCentroid(pos, assign, cents, n - 1)

\* Math.max(...clusterSizes) and Math.min(...clusterSizes.filter(size => size > 0))
LargestOf(sizes) ==
    IF ArrayLen(sizes) = 0 THEN NegInfinity ELSE MaxArray(sizes, ArrayLen(sizes))
SmallestPositiveOf(sizes) ==
    LET pos == {sizes[x] : x \in DOMAIN sizes} \ {0}
    IN  IF pos = {} THEN Infinity ELSE CHOOSE m \in pos : \A o \in pos : m <= o

\* the pairs of centroids at 2380-2389
CentroidPairs(cents) == {p \in (DOMAIN cents) \X (DOMAIN cents) : p[1] < p[2]}
RECURSIVE SumPairDistance(_, _)
SumPairDistance(cents, pairs) ==
    IF pairs = {} THEN 0
    ELSE LET p == CHOOSE q \in pairs : TRUE
         IN  haversineDistance(cents[p[1]][1], cents[p[1]][2], cents[p[2]][1], cents[p[2]][2])
             + SumPairDistance(cents, pairs \ {p})

\* calculateGlobalCentroid (2439-2453), in fixed-point coordinates
RECURSIVE SumPosCoord(_, _, _)
SumPosCoord(pos, coord, n) ==
    IF n <= 0 THEN 0 ELSE Fx(pos[n - 1][coord]) + SumPosCoord(pos, coord, n - 1)
calculateGlobalCentroid(pos) ==
    IF ArrayLen(pos) = 0 THEN <<0, 0>>
    ELSE <<SumPosCoord(pos, 1, ArrayLen(pos)) \div ArrayLen(pos),
           SumPosCoord(pos, 2, ArrayLen(pos)) \div ArrayLen(pos)>>

RECURSIVE TotalVariance(_, _, _)
TotalVariance(pos, g, n) ==
    IF n <= 0 THEN 0
    ELSE LET distance == haversineDistance(Fx(pos[n - 1][1]), Fx(pos[n - 1][2]), g[1], g[2])
         IN  distance * distance + TotalVariance(pos, g, n - 1)

RECURSIVE BetweenVariance(_, _, _, _)
BetweenVariance(cents, sizes, g, n) ==
    IF n <= 0 THEN 0
    ELSE LET distance == haversineDistance(cents[n - 1][1], cents[n - 1][2], g[1], g[2])
         IN  (IF At(sizes, n - 1) # Undefined /\ At(sizes, n - 1) > 0
              THEN sizes[n - 1] * distance * distance ELSE 0)
             + BetweenVariance(cents, sizes, g, n - 1)

ZeroMetrics ==
    [returned |-> TRUE, threw |-> FALSE, silhouetteScore |-> 0,
     avgDistanceToCentroid |-> 0, largestCluster |-> 0, smallestCluster |-> 0,
     avgInterClusterDistance |-> 0, varianceExplained |-> 0]

calculateClusterMetrics(pos, res) ==
    IF ArrayLen(pos) = 0 \/ res.k = 0 THEN ZeroMetrics
    ELSE IF MetricsLoopThrows(pos, res) THEN [returned |-> FALSE, threw |-> TRUE]
    ELSE LET n == ArrayLen(pos)
             pairs == CentroidPairs(res.centroids)
             g == calculateGlobalCentroid(pos)
             totalVariance == TotalVariance(pos, g, n)
             betweenClusterVariance ==
                 BetweenVariance(res.centroids, res.clusterSizes, g, ArrayLen(res.centroids))
         IN  [returned |-> TRUE, threw |-> FALSE,
              silhouetteScore |->
                 IF res.hasScores /\ Len(res.silhouetteScores) > 0
                 THEN res.silhouetteScores[res.k - 1]
                 ELSE calculateSilhouetteScore(pos, res.assignments, res.centroids),
              avgDistanceToCentroid |->
                 (SumDistanceToCentroid(pos, res.assignments, res.centroids, n) * AvgScale) \div n,
              largestCluster |-> LargestOf(res.clusterSizes),
              smallestCluster |-> SmallestPositiveOf(res.clusterSizes),
              avgInterClusterDistance |->
                 IF Cardinality(pairs) > 0
                 THEN (SumPairDistance(res.centroids, pairs) * AvgScale) \div Cardinality(pairs)
                 ELSE 0,
              varianceExplained |->
                 IF totalVariance > 0
                 THEN (betweenClusterVariance * VarScale) \div totalVariance
                 ELSE 0]

\* displayClusterStatistics, line 2006: the metrics of the returned result
DcsMetrics ==
    /\ pc = "pkm_returned"
    /\ clusterMetrics' = calculateClusterMetrics(positions, kMeansResults)
    /\ pc' = IF clusterMetrics'.threw THEN "dcs_threw" ELSE "dcs_metrics_done"
    /\ UNCHANGED <<positions, kRange, kIdx, optimalK, bestScore, finalAssignments,
                   finalCentroids, finalClusterSizes, silhouetteScores, inertiaValues,
                   kMeansResults, kmcRuns, dbVars, kmcVars, auxVars>>

\* inputs of the cluster analysis: up to three groups of balloons, at 0, -3
\* and 3 degrees of longitude on the equator, listed group after group
PkmGroup == 10
PkmCounts == {0, 1, PkmGroup - 1, PkmGroup, PkmGroup + 1}
GroupedPositions(c1, c2, c3) ==
    [x \in 0..(c1 + c2 + c3 - 1) |->
        IF x < c1 THEN <<0, 0>> ELSE IF x < c1 + c2 THEN <<0, -3>> ELSE <<0, 3>>]
PkmInputs == {GroupedPositions(c1, c2, c3) : c1 \in PkmCounts, c2 \in PkmCounts, c3 \in PkmCounts}

InitClusterStatistics ==
    /\ pc = "pkm_enter"
    /\ positions \in PkmInputs
    /\ kmCaller = "performKMeansClustering"
    /\ k = 0
    /\ KmcIdle /\ DbIdle /\ PkmIdle /\ AuxIdle

NextClusterStatistics ==
    \/ PkmEnter
    \/ PkmNextK
    \/ KmcEnter
    \/ KmcSeedFirst
    \/ KmcSeedNext
    \/ KmcAssign
    \/ KmcUpdate
    \/ KmcFinish
    \/ PkmScore
    \/ PkmReturn
    \/ DcsMetrics

SpecClusterStatistics == InitClusterStatistics /\ [][NextClusterStatistics]_vars

\* ------------------------------------------------------------------------
\* The cluster analysis requested twice for the same snapshot: every
\* request runs displayClusterStatistics, which calls
\* performKMeansClustering(positions) afresh (part_001:2003).  The function
\* takes the positions only; its random numbers are Math.random() (2227,
\* 2253), which no caller can supply.
\* ------------------------------------------------------------------------
\* the second request: keep the first result at hand and enter again with
\* fresh locals
PkmCallAgain ==
    /\ pc = "pkm_returned"
    /\ previousResults = NoResult
    /\ previousResults' = kMeansResults
    /\ pc' = "pkm_enter"
    /\ kRange' = <<>> /\ kIdx' = 0 /\ optimalK' = 0 /\ bestScore' = 0
    /\ finalAssignments' = <<>> /\ finalCentroids' = <<>> /\ finalClusterSizes' = <<>>
    /\ silhouetteScores' = <<>> /\ inertiaValues' = <<>> /\ kMeansResults' = NoResult
    /\ kmcRuns' = <<>>
    /\ k' = 0
    /\ centroids' = <<>> /\ assignments' = <<>> /\ oldAssignments' = <<>>
    /\ iterations' = 0 /\ converged' = FALSE /\ kmcResult' = NoResult
    /\ UNCHANGED <<positions, kmCaller, clusterMetrics, dbVars, hullVars, covVars, altVars,
                   fnVars, uiVars>>

\* snapshots of no, one or two full groups of balloons
RepeatInputs ==
    {GroupedPositions(c1, c2, c3) :
        c1 \in {0, PkmGroup}, c2 \in {0, PkmGroup}, c3 \in {0, PkmGroup}}
        \ {GroupedPositions(PkmGroup, PkmGroup, PkmGroup)}

InitRepeatedClustering ==
    /\ pc = "pkm_enter"
    /\ positions \in RepeatInputs
    /\ kmCaller = "performKMeansClustering"
    /\ k = 0
    /\ KmcIdle /\ DbIdle /\ PkmIdle /\ AuxIdle

NextRepeatedClustering ==
    \/ PkmEnter
    \/ PkmNextK
    \/ KmcEnter
    \/ KmcSeedFirst
    \/ KmcSeedNext
    \/ KmcAssign
    \/ KmcUpdate
    \/ KmcFinish
    \/ PkmScore
    \/ PkmReturn
    \/ PkmCallAgain

SpecRepeatedClustering == InitRepeatedClustering /\ [][NextRepeatedClustering]_vars

\* C14: the randomness of centroid clustering comes from a random source the
\* caller supplies, so two runs of performKMeansClustering on the same
\* positions with the same supplied values (the code accepts none, so any
\* two runs) return the same k, centroids and assignments.
Claim_C14_SameInputsSameResult ==
    (pc = "pkm_returned" /\ previousResults.returned) =>
        /\ kMeansResults.k = previousResults.k
        /\ kMeansResults.centroids = previousResults.centroids
        /\ kMeansResults.assignments = previousResults.assignments

\* ------------------------------------------------------------------------
\* Properties of the cluster analysis (checked under SpecClusterStatistics)
\* ------------------------------------------------------------------------
PkmN == ArrayLen(positions)
PkmReturned == pc \in {"pkm_returned", "dcs_threw", "dcs_metrics_done"} /\ kMeansResults.returned
\* the candidate range 2..min(20, floor(N/10)) is empty
CandidateRangeEmpty == Min(20, PkmN \div 10) < 2

\* C1: whenever the candidate k range is empty (every N from 0 to 19) the
\* result returned by performKMeansClustering has k = 0 and empty centroids,
\* assignments and clusterSizes.
Claim_C1_EmptyRangeGivesKZero ==
    (PkmReturned /\ CandidateRangeEmpty) =>
        /\ kMeansResults.k = 0
        /\ kMeansResults.centroids = EmptyArray
        /\ kMeansResults.assignments = EmptyArray
        /\ kMeansResults.clusterSizes = EmptyArray

\* C2: for a non-empty position list with an empty candidate range,
\* performKMeansClustering followed by calculateClusterMetrics completes
\* without an error and yields the zeroed metrics.
Claim_C2_TooSmallSnapshotNoError ==
    (PkmN >= 1 /\ CandidateRangeEmpty) =>
        /\ pc # "dcs_threw"
        /\ (pc = "dcs_metrics_done" => clusterMetrics = ZeroMetrics)

\* the first position of the highest value in a sequence of scores
BestIndex(scores) ==
    CHOOSE m \in 1..Len(scores) :
        /\ \A o \in 1..Len(scores) : scores[o] <= scores[m]
        /\ \A o \in 1..(m - 1) : scores[o] < scores[m]

SingleCluster(assign) == \A x, y \in DOMAIN assign : assign[x] = assign[y]

\* C9: calculateSilhouetteScore returns exactly 0 when N <= 1 or when all
\* the points carry the same assignment, whatever the number of centroids.
\* Stated of every score performKMeansClustering records for a run.
Claim_C9_SingleClusterScoresZero ==
    (pc = "pkm_loop" /\ kIdx >= 1) =>
        ((PkmN <= 1 \/ SingleCluster(kmcRuns[kIdx].assignments)) =>
            silhouetteScores[kIdx] = 0)

\* ------------------------------------------------------------------------
\* calculateConvexHull (part_001:2886-2935) and isCounterClockwise (2938-2940)
\*
\* A point is <<p0, p1>>, the JavaScript [p[0], p[1]] (latitude, longitude).
\* ------------------------------------------------------------------------
\* the pivot search at 2892-2899
RECURSIVE LowestFrom(_, _, _)
LowestFrom(points, idx, lowest) ==
    IF idx >= ArrayLen(points) THEN lowest
    ELSE IF points[idx][1] < lowest[1]
            \/ (points[idx][1] = lowest[1] /\ points[idx][2] < lowest[2])
         THEN LowestFrom(points, idx + 1, points[idx])
         ELSE LowestFrom(points, idx + 1, lowest)

LowestPointOf(points) == LowestFrom(points, 1, points[0])

\* Math.atan2(a[0] - low[0], a[1] - low[1]) is compared, not computed: with
\* y = a[0] - low[0] >= 0 (low has the least first coordinate) the angle lies
\* in [0, pi], atan2(0, 0) is 0, and for two such vectors u, v the angle of
\* u is below the angle of v iff the cross product x_u * y_v - y_u * x_v is
\* positive (or the vectors are opposite with u on the positive x axis).
DirectionOf(p, low) ==
    IF p = low THEN <<0, 1>> ELSE <<p[1] - low[1], p[2] - low[2]>>
AngleLess(u, v) ==
    LET cross == u[2] * v[1] - u[1] * v[2]
        dot == u[2] * v[2] + u[1] * v[1]
    IN  cross > 0 \/ (cross = 0 /\ dot < 0 /\ u[2] > 0)
SquaredDistance(p, low) ==
    (p[1] - low[1]) * (p[1] - low[1]) + (p[2] - low[2]) * (p[2] - low[2])

\* the comparator at 2902-2917 returns a negative number: a sorts before b
SortsBefore(a, b, low) ==
    LET angleA == DirectionOf(a, low)
        angleB == DirectionOf(b, low)
    IN  IF AngleLess(angleA, angleB) \/ AngleLess(angleB, angleA)
        THEN AngleLess(angleB, angleA)
        ELSE SquaredDistance(a, low) < SquaredDistance(b, low)

\* Array.prototype.sort is stable: an element goes before the first element
\* it sorts before
RECURSIVE InsertSorted(_, _, _, _)
InsertSorted(sorted, p, low, n) ==
    IF n > Len(sorted) THEN Append(sorted, p)
    ELSE IF SortsBefore(p, sorted[n], low)
         THEN SubSeq(sorted, 1, n - 1) \o <<p>> \o SubSeq(sorted, n, Len(sorted))
         ELSE InsertSorted(sorted, p, low, n + 1)

RECURSIVE SortFrom(_, _, _, _)
SortFrom(points, low, idx, sorted) ==
    IF idx >= ArrayLen(points) THEN sorted
    ELSE SortFrom(points, low, idx + 1, InsertSorted(sorted, points[idx], low, 1))

\* points.slice().sort(...), as an array
SortByPolarAngle_Mutant(points, low) ==
    LET sorted == <<low>> \o SortFrom(points, low, 0, <<>>)
    IN  [x \in 0..(Len(sorted) - 1) |-> sorted[x + 1]]
SortByPolarAngle(points, low) ==
    LET sorted == SortFrom(points, low, 0, <<>>)
    IN  [x \in 0..(Len(sorted) - 1) |-> sorted[x + 1]]

isCounterClockwise(p1, p2, p3) ==
    (p2[2] - p1[2]) * (p3[1] - p2[1]) - (p2[1] - p1[1]) * (p3[2] - p2[2]) > 0

ArrayToSeq(a) == [x \in 1..ArrayLen(a) |-> a[x - 1]]

\* entry: fewer than 3 points are returned as they are (2887-2889); otherwise
\* pivot, sort and the first two points of the stack (2891-2920)
HullEnter ==
    /\ pc = "hull_enter"
    /\ IF ArrayLen(positions) < 3
       THEN /\ hullResult' = [returned |-> TRUE, hull |-> ArrayToSeq(positions)]
            /\ pc' = "hull_done"
            /\ UNCHANGED <<lowestPoint, sortedPoints, hull, hi>>
       ELSE /\ lowestPoint' = LowestPointOf(positions)
            /\ sortedPoints' = SortByPolarAngle(positions, lowestPoint')
            /\ hull' = <<sortedPoints'[0], sortedPoints'[1]>>
            /\ hi' = 2
            /\ pc' = "hull_scan"
            /\ UNCHANGED hullResult
    /\ UNCHANGED <<positions>>
    /\ HullOthersUnchanged

\* the while loop at 2923-2929: pop the top of the stack
HullPop ==
    /\ pc = "hull_scan"
    /\ hi < ArrayLen(sortedPoints)
    /\ Len(hull) >= 2
    /\ ~isCounterClockwise(hull[Len(hull) - 1], hull[Len(hull)], sortedPoints[hi])
    /\ hull' = SubSeq(hull, 1, Len(hull) - 1)
    /\ UNCHANGED <<pc, positions, lowestPoint, sortedPoints, hi, hullResult>>
    /\ HullOthersUnchanged

\* the while loop is over: push the point (2931)
HullPush ==
    /\ pc = "hull_scan"
    /\ hi < ArrayLen(sortedPoints)
    /\ ~(/\ Len(hull) >= 2
         /\ ~isCounterClockwise(hull[Len(hull) - 1], hull[Len(hull)], sortedPoints[hi]))
    /\ hull' = Append(hull, sortedPoints[hi])
    /\ hi' = hi + 1
    /\ UNCHANGED <<pc, positions, lowestPoint, sortedPoints, hullResult>>
    /\ HullOthersUnchanged

\* every sorted point was scanned: return the stack (2934)
HullReturn ==
    /\ pc = "hull_scan"
    /\ hi >= ArrayLen(sortedPoints)
    /\ hullResult' = [returned |-> TRUE, hull |-> hull]
    /\ pc' = "hull_done"
    /\ UNCHANGED <<positions, lowestPoint, sortedPoints, hull, hi>>
    /\ HullOthersUnchanged

\* hull inputs are points of a 3 x 3 lattice
HullCoords == {0, 1, 2}
HullInputs == UNION {ArraysOf(n, HullCoords \X HullCoords) : n \in 0..MaxHullPoints}

InitConvexHull ==
    /\ pc = "hull_enter"
    /\ positions \in HullInputs
    /\ kmCaller = "none" /\ k = 0
    /\ DbIdle /\ KmcIdle /\ PkmIdle /\ AuxIdle

NextConvexHull ==
    \/ HullEnter
    \/ HullPop
    \/ HullPush
    \/ HullReturn

SpecConvexHull == InitConvexHull /\ [][NextConvexHull]_vars

\* ------------------------------------------------------------------------
\* Properties of calculateConvexHull (checked under SpecConvexHull)
\* ------------------------------------------------------------------------
HullReturned == pc = "hull_done" /\ hullResult.returned
InputPoints == {positions[x] : x \in DOMAIN positions}
HullVertices == {hullResult.hull[n] : n \in 1..Len(hullResult.hull)}

\* twice the signed area of the triangle a, b, p
Orient(a, b, p) == (b[2] - a[2]) * (p[1] - a[1]) - (b[1] - a[1]) * (p[2] - a[2])
OnSegment(p, a, b) ==
    /\ Orient(a, b, p) = 0
    /\ Min(a[1], b[1]) <= p[1] /\ p[1] <= Max(a[1], b[1])
    /\ Min(a[2], b[2]) <= p[2] /\ p[2] <= Max(a[2], b[2])
InTriangle(p, a, b, c) ==
    IF Orient(a, b, c) = 0
    THEN OnSegment(p, a, b) \/ OnSegment(p, b, c) \/ OnSegment(p, c, a)
    ELSE LET d1 == Orient(a, b, p)
             d2 == Orient(b, c, p)
             d3 == Orient(c, a, p)
         IN  ~((d1 < 0 \/ d2 < 0 \/ d3 < 0) /\ (d1 > 0 \/ d2 > 0 \/ d3 > 0))
\* p lies inside or on the convex polygon spanned by the points of S; every
\* polygon with its vertices in S lies within it
InsideOrOn(p, S) == \E a, b, c \in S : InTriangle(p, a, b, c)

\* C5: for any input of at least 3 points, every input point lies inside or
\* on the polygon formed by the returned hull vertices.
Claim_C5_HullContainsInput ==
    (HullReturned /\ ArrayLen(positions) >= 3) =>
        \A p \in InputPoints : InsideOrOn(p, HullVertices)

\* the input points are distinct and none lies inside or on the convex
\* polygon of the others
ConvexPosition ==
    /\ Cardinality(InputPoints) = ArrayLen(positions)
    /\ \A p \in InputPoints : ~InsideOrOn(p, InputPoints \ {p})

\* the vertices of a sequence turn the same way all around
BoundaryOrder(h) ==
    LET nxt(n) == IF n = Len(h) THEN 1 ELSE n + 1
    IN  \/ \A n \in 1..Len(h) : Orient(h[n], h[nxt(n)], h[nxt(nxt(n))]) > 0
        \/ \A n \in 1..Len(h) : Orient(h[n], h[nxt(n)], h[nxt(nxt(n))]) < 0

\* C6: when the input points are in convex position (the 4 corners of a
\* square), the returned hull contains exactly those points, each once, in
\* boundary order.
Claim_C6_ConvexPositionKept ==
    (HullReturned /\ ArrayLen(positions) >= 3 /\ ConvexPosition) =>
        /\ Len(hullResult.hull) = ArrayLen(positions)
        /\ HullVertices = InputPoints
        /\ BoundaryOrder(hullResult.hull)

\* how often a point occurs in an array and in a sequence
OccurrencesIn(a, p) == Cardinality({x \in DOMAIN a : a[x] = p})

\* C20: every vertex of the returned hull is one of the input points, and no
\* point occurs in the hull more often than it occurs in the input.
Thm_C20_HullSubsetOfInput ==
    HullReturned =>
        /\ HullVertices \subseteq InputPoints
        /\ \A p \in InputPoints :
              OccurrencesIn(hullResult.hull, p) <= OccurrencesIn(positions, p)

\* the scan popped a point of a four-point input with a repeated point and
\* returned a hull of three vertices
Wit_C20_ScanDroppedPoints ==
    /\ HullReturned /\ ArrayLen(positions) = 4
    /\ Cardinality(InputPoints) = 3
    /\ Len(hullResult.hull) = 3
    /\ Cardinality(HullVertices) = 3

\* ------------------------------------------------------------------------
\* calculateCoverageMetrics (part_001:824-896) and generateEarthGrid (899-916)
\*
\* Positions are <<lat, lng>> in whole degrees.  The gap estimate is in
\* whole km; the cell it is reported for (maxGapLocation, 872-873) is decided
\* among equally distant cells by floating-point rounding and is not
\* modelled.
\* ------------------------------------------------------------------------
GridRows == 12
GridCols == 12
LatStep == 15
LngStep == 30
PctScale == 10

\* generateEarthGrid(15, 30): one row per latitude step from -90 below 90
generateEarthGrid(latStep, lngStep) ==
    [r \in 0..((180 \div latStep) - 1) |->
        [c \in 0..((360 \div lngStep) - 1) |-> [covered |-> FALSE, count |-> 0]]]

\* the cell of a position (837-838)
LatIndexOf(lat) == (90 + lat) \div LatStep
LngIndexOf(lng) == (180 + lng) \div LngStep
InGrid(latIndex, lngIndex) ==
    latIndex >= 0 /\ latIndex < GridRows /\ lngIndex >= 0 /\ lngIndex < GridCols

\* cos(latCenter) for the centre latitude of a row, in 1/10000 (862):
\* cos 82.5, 67.5, 52.5, 37.5, 22.5 and 7.5 degrees, the same south and north
CellWeight(latIndex) ==
    LET w == <<1305, 3827, 6088, 7934, 9239, 9914>>
    IN  IF latIndex < 6 THEN w[latIndex + 1] ELSE w[GridRows - latIndex]

\* what the loop at 856-885 adds up for one cell: its weight (864), its
\* weight when covered (865-866), or its count (881)
CellTerm_Mutant(cell, latIndex, what) ==
    IF what = "weight" THEN 1
    ELSE IF what = "coveredWeight" THEN (IF cell.covered THEN CellWeight(latIndex) ELSE 0)
    ELSE cell.count
CellTerm(cell, latIndex, what) ==
    IF what = "weight" THEN CellWeight(latIndex)
    ELSE IF what = "coveredWeight" THEN (IF cell.covered THEN CellWeight(latIndex) ELSE 0)
    ELSE cell.count

\* the inner loop at 857: the sum of a term over the first n cells of a row
RECURSIVE SumOverRow(_, _, _, _)
SumOverRow(g, latIndex, what, n) ==
    IF n <= 0 THEN 0
    ELSE CellTerm(g[latIndex][n - 1], latIndex, what) + SumOverRow(g, latIndex, what, n - 1)

\* the outer loop at 856: the sum of a term over the first n rows
RECURSIVE SumOverCells(_, _, _)
SumOverCells(g, what, n) ==
    IF n <= 0 THEN 0
    ELSE SumOverRow(g, n - 1, what, GridCols) + SumOverCells(g, what, n - 1)

\* haversineDistance between the centres of two cells of the 12 x 12 grid
\* (926-931), rounded to whole km: row latIndex is centred at latitude
\* -90 + 15 * latIndex + 7.5, and the distance depends on the two rows and on
\* the number of 30-degree columns between the cells, at most 6 either way
\* round.  CentreDistanceKm[r1 + 1][r2 + 1][columns + 1] is that distance.
CentreDistanceKm ==
  <<
    <<<<0, 431, 832, 1178, 1443, 1611, 1668>>, <<1668, 1825, 2200, 2630, 3002, 3250, 3336>>,
       <<3336, 3469, 3812, 4240, 4635, 4907, 5004>>, <<5004, 5128, 5455, 5879, 6284, 6569, 6672>>,
       <<6672, 6790, 7107, 7528, 7938, 8233, 8340>>, <<8340, 8454, 8763, 9181, 9595, 9897, 10008>>,
       <<10008, 10118, 10420, 10834, 11252, 11561, 11675>>, <<11675, 11782, 12077, 12487, 12908, 13225, 13343>>,
       <<13343, 13446, 13731, 14136, 14560, 14888, 15011>>, <<15011, 15108, 15380, 15775, 16203, 16546, 16679>>,
       <<16679, 16766, 17013, 17385, 17815, 18190, 18347>>, <<18347, 18404, 18572, 18837, 19183, 19585, 20015>>>>,
    <<<<1668, 1825, 2200, 2630, 3002, 3250, 3336>>, <<0, 1264, 2453, 3491, 4304, 4824, 5004>>,
       <<1668, 2315, 3541, 4766, 5776, 6440, 6672>>, <<3336, 3822, 4939, 6202, 7312, 8070, 8340>>,
       <<5004, 5417, 6446, 7705, 8875, 9706, 10008>>, <<6672, 7040, 7997, 9237, 10448, 11342, 11675>>,
       <<8340, 8673, 9567, 10778, 12018, 12975, 13343>>, <<10008, 10309, 11140, 12310, 13569, 14598, 15011>>,
       <<11675, 11945, 12703, 13813, 15076, 16193, 16679>>, <<13343, 13575, 14240, 15249, 16474, 17700, 18347>>,
       <<15011, 15191, 15711, 16524, 17562, 18751, 20015>>, <<16679, 16766, 17013, 17385, 17815, 18190, 18347>>>>,
    <<<<3336, 3469, 3812, 4240, 4635, 4907, 5004>>, <<1668, 2315, 3541, 4766, 5776, 6440, 6672>>,
       <<0, 2016, 3941, 5670, 7076, 8010, 8340>>, <<1668, 2856, 4846, 6796, 8454, 9595, 10008>>,
       <<3336, 4198, 6028, 8042, 9865, 11183, 11675>>, <<5004, 5696, 7349, 9347, 11279, 12763, 13343>>,
       <<6672, 7252, 8736, 10668, 12666, 14319, 15011>>, <<8340, 8832, 10150, 11973, 13987, 15817, 16679>>,
       <<10008, 10420, 11561, 13219, 15170, 17159, 18347>>, <<11675, 12005, 12939, 14345, 16074, 17999, 20015>>,
       <<13343, 13575, 14240, 15249, 16474, 17700, 18347>>, <<15011, 15108, 15380, 15775, 16203, 16546, 16679>>>>,
    <<<<5004, 5128, 5455, 5879, 6284, 6569, 6672>>, <<3336, 3822, 4939, 6202, 7312, 8070, 8340>>,
       <<1668, 2856, 4846, 6796, 8454, 9595, 10008>>, <<0, 2635, 5197, 7589, 9651, 11125, 11675>>,
       <<1668, 3314, 5912, 8510, 10861, 12642, 13343>>, <<3336, 4501, 6870, 9501, 12041, 14121, 15011>>,
       <<5004, 5894, 7974, 10514, 13145, 15514, 16679>>, <<6672, 7373, 9154, 11506, 14103, 16701, 18347>>,
       <<8340, 8890, 10364, 12426, 14818, 17380, 20015>>, <<10008, 10420, 11561, 13219, 15170, 17159, 18347>>,
       <<11675, 11945, 12703, 13813, 15076, 16193, 16679>>, <<13343, 13446, 13731, 14136, 14560, 14888, 15011>>>>,
    <<<<6672, 6790, 7107, 7528, 7938, 8233, 8340>>, <<5004, 5417, 6446, 7705, 8875, 9706, 10008>>,
       <<3336, 4198, 6028, 8042, 9865, 11183, 11675>>, <<1668, 3314, 5912, 8510, 10861, 12642, 13343>>,
       <<0, 3077, 6118, 9071, 11818, 14050, 15011>>, <<1668, 3616, 6613, 9689, 12685, 15346, 16679>>,
       <<3336, 4669, 7330, 10326, 13402, 16399, 18347>>, <<5004, 5965, 8197, 10944, 13897, 16938, 20015>>,
       <<6672, 7373, 9154, 11506, 14103, 16701, 18347>>, <<8340, 8832, 10150, 11973, 13987, 15817, 16679>>,
       <<10008, 10309, 11140, 12310, 13569, 14598, 15011>>, <<11675, 11782, 12077, 12487, 12908, 13225, 13343>>>>,
    <<<<8340, 8454, 8763, 9181, 9595, 9897, 10008>>, <<6672, 7040, 7997, 9237, 10448, 11342, 11675>>,
       <<5004, 5696, 7349, 9347, 11279, 12763, 13343>>, <<3336, 4501, 6870, 9501, 12041, 14121, 15011>>,
       <<1668, 3616, 6613, 9689, 12685, 15346, 16679>>, <<0, 3307, 6609, 9899, 13157, 16294, 18347>>,
       <<1668, 3721, 6858, 10116, 13406, 16708, 20015>>, <<3336, 4669, 7330, 10326, 13402, 16399, 18347>>,
       <<5004, 5894, 7974, 10514, 13145, 15514, 16679>>, <<6672, 7252, 8736, 10668, 12666, 14319, 15011>>,
       <<8340, 8673, 9567, 10778, 12018, 12975, 13343>>, <<10008, 10118, 10420, 10834, 11252, 11561, 11675>>>>,
    <<<<10008, 10118, 10420, 10834, 11252, 11561, 11675>>, <<8340, 8673, 9567, 10778, 12018, 12975, 13343>>,
       <<6672, 7252, 8736, 10668, 12666, 14319, 15011>>, <<5004, 5894, 7974, 10514, 13145, 15514, 16679>>,
       <<3336, 4669, 7330, 10326, 13402, 16399, 18347>>, <<1668, 3721, 6858, 10116, 13406, 16708, 20015>>,
       <<0, 3307, 6609, 9899, 13157, 16294, 18347>>, <<1668, 3616, 6613, 9689, 12685, 15346, 16679>>,
       <<3336, 4501, 6870, 9501, 12041, 14121, 15011>>, <<5004, 5696, 7349, 9347, 11279, 12763, 13343>>,
       <<6672, 7040, 7997, 9237, 10448, 11342, 11675>>, <<8340, 8454, 8763, 9181, 9595, 9897, 10008>>>>,
    <<<<11675, 11782, 12077, 12487, 12908, 13225, 13343>>, <<10008, 10309, 11140, 12310, 13569, 14598, 15011>>,
       <<8340, 8832, 10150, 11973, 13987, 15817, 16679>>, <<6672, 7373, 9154, 11506, 14103, 16701, 18347>>,
       <<5004, 5965, 8197, 10944, 13897, 16938, 20015>>, <<3336, 4669, 7330, 10326, 13402, 16399, 18347>>,
       <<1668, 3616, 6613, 9689, 12685, 15346, 16679>>, <<0, 3077, 6118, 9071, 11818, 14050, 15011>>,
       <<1668, 3314, 5912, 8510, 10861, 12642, 13343>>, <<3336, 4198, 6028, 8042, 9865, 11183, 11675>>,
       <<5004, 5417, 6446, 7705, 8875, 9706, 10008>>, <<6672, 6790, 7107, 7528, 7938, 8233, 8340>>>>,
    <<<<13343, 13446, 13731, 14136, 14560, 14888, 15011>>, <<11675, 11945, 12703, 13813, 15076, 16193, 16679>>,
       <<10008, 10420, 11561, 13219, 15170, 17159, 18347>>, <<8340, 8890, 10364, 12426, 14818, 17380, 20015>>,
       <<6672, 7373, 9154, 11506, 14103, 16701, 18347>>, <<5004, 5894, 7974, 10514, 13145, 15514, 16679>>,
       <<3336, 4501, 6870, 9501, 12041, 14121, 15011>>, <<1668, 3314, 5912, 8510, 10861, 12642, 13343>>,
       <<0, 2635, 5197, 7589, 9651, 11125, 11675>>, <<1668, 2856, 4846, 6796, 8454, 9595, 10008>>,
       <<3336, 3822, 4939, 6202, 7312, 8070, 8340>>, <<5004, 5128, 5455, 5879, 6284, 6569, 6672>>>>,
    <<<<15011, 15108, 15380, 15775, 16203, 16546, 16679>>, <<13343, 13575, 14240, 15249, 16474, 17700, 18347>>,
       <<11675, 12005, 12939, 14345, 16074, 17999, 20015>>, <<10008, 10420, 11561, 13219, 15170, 17159, 18347>>,
       <<8340, 8832, 10150, 11973, 13987, 15817, 16679>>, <<6672, 7252, 8736, 10668, 12666, 14319, 15011>>,
       <<5004, 5696, 7349, 9347, 11279, 12763, 13343>>, <<3336, 4198, 6028, 8042, 9865, 11183, 11675>>,
       <<1668, 2856, 4846, 6796, 8454, 9595, 10008>>, <<0, 2016, 3941, 5670, 7076, 8010, 8340>>,
       <<1668, 2315, 3541, 4766, 5776, 6440, 6672>>, <<3336, 3469, 3812, 4240, 4635, 4907, 5004>>>>,
    <<<<16679, 16766, 17013, 17385, 17815, 18190, 18347>>, <<15011, 15191, 15711, 16524, 17562, 18751, 20015>>,
       <<13343, 13575, 14240, 15249, 16474, 17700, 18347>>, <<11675, 11945, 12703, 13813, 15076, 16193, 16679>>,
       <<10008, 10309, 11140, 12310, 13569, 14598, 15011>>, <<8340, 8673, 9567, 10778, 12018, 12975, 13343>>,
       <<6672, 7040, 7997, 9237, 10448, 11342, 11675>>, <<5004, 5417, 6446, 7705, 8875, 9706, 10008>>,
       <<3336, 3822, 4939, 6202, 7312, 8070, 8340>>, <<1668, 2315, 3541, 4766, 5776, 6440, 6672>>,
       <<0, 1264, 2453, 3491, 4304, 4824, 5004>>, <<1668, 1825, 2200, 2630, 3002, 3250, 3336>>>>,
    <<<<18347, 18404, 18572, 18837, 19183, 19585, 20015>>, <<16679, 16766, 17013, 17385, 17815, 18190, 18347>>,
       <<15011, 15108, 15380, 15775, 16203, 16546, 16679>>, <<13343, 13446, 13731, 14136, 14560, 14888, 15011>>,
       <<11675, 11782, 12077, 12487, 12908, 13225, 13343>>, <<10008, 10118, 10420, 10834, 11252, 11561, 11675>>,
       <<8340, 8454, 8763, 9181, 9595, 9897, 10008>>, <<6672, 6790, 7107, 7528, 7938, 8233, 8340>>,
       <<5004, 5128, 5455, 5879, 6284, 6569, 6672>>, <<3336, 3469, 3812, 4240, 4635, 4907, 5004>>,
       <<1668, 1825, 2200, 2630, 3002, 3250, 3336>>, <<0, 431, 832, 1178, 1443, 1611, 1668>>>>
  >>

CentreDistance(latIndex, lngIndex, r, c) ==
    LET apart == Abs(lngIndex - c)
        columns == IF apart > GridCols \div 2 THEN GridCols - apart ELSE apart
    IN  CentreDistanceKm[latIndex + 1][r + 1][columns + 1]

CoveredCells(g) ==
    {cell \in (0..(GridRows - 1)) \X (0..(GridCols - 1)) : g[cell[1]][cell[2]].covered}

\* estimateGapSize (919-938): the distance to the nearest covered cell,
\* Infinity when no cell is covered
estimateGapSize(g, latIndex, lngIndex) ==
    LET distances == {CentreDistance(latIndex, lngIndex, cell[1], cell[2]) :
                         cell \in CoveredCells(g)}
    IN  IF distances = {} THEN Infinity
        ELSE CHOOSE d \in distances : \A e \in distances : d <= e

\* maxGapDistance (849, 867-875): the largest gap estimate of an uncovered
\* cell, 0 when every cell is covered
MaxGapDistanceOf(g) ==
    LET gaps == {estimateGapSize(g, cell[1], cell[2]) :
                    cell \in ((0..(GridRows - 1)) \X (0..(GridCols - 1))) \ CoveredCells(g)}
                \cup {0}
    IN  CHOOSE d \in gaps : \A e \in gaps : d >= e

\* balloons per million km^2 (826-829), in units of 1/DensityScale
DensityScale == 10000
earthSurfaceArea == 510100000
DensityOf(n) == (n * DensityScale * 1000) \div (earthSurfaceArea \div 1000)

\* the grid is generated (832)
CovEnter ==
    /\ pc = "cov_enter"
    /\ grid' = generateEarthGrid(LatStep, LngStep)
    /\ ci' = 0
    /\ pc' = "cov_mark"
    /\ UNCHANGED <<positions, covResult>>
    /\ CovOthersUnchanged

\* one position of the forEach at 835-844
CovMark ==
    /\ pc = "cov_mark"
    /\ ci < ArrayLen(positions)
    /\ LET latIndex == LatIndexOf(positions[ci][1])
           lngIndex == LngIndexOf(positions[ci][2])
       IN  grid' = IF InGrid(latIndex, lngIndex)
                   THEN [grid EXCEPT ![latIndex][lngIndex] =
                            [covered |-> TRUE, count |-> @.count + 1]]
                   ELSE grid
    /\ ci' = ci + 1
    /\ UNCHANGED <<pc, positions, covResult>>
    /\ CovOthersUnchanged

\* the weighted percentage and the returned record (846-895), the percentage
\* in units of 1/PctScale percent
CovFinish ==
    /\ pc = "cov_mark"
    /\ ci >= ArrayLen(positions)
    /\ LET totalCells == SumOverCells(grid, "weight", GridRows)
           coveredCells == SumOverCells(grid, "coveredWeight", GridRows)
       IN  covResult' = [returned |-> TRUE,
                         density |-> DensityOf(ArrayLen(positions)),
                         coveredPercentage |-> (coveredCells * 100 * PctScale) \div totalCells,
                         maxGapDistance |-> MaxGapDistanceOf(grid),
                         gridDistribution |-> grid]
    /\ pc' = "cov_done"
    /\ UNCHANGED <<positions, grid, ci>>
    /\ CovOthersUnchanged

\* valid positions, the boundaries of the latitude and longitude ranges included
CovLats == {-90, -1, 0, 89, 90}
CovLngs == {-180, 0, 179, 180}
CovInputs == UNION {ArraysOf(n, CovLats \X CovLngs) : n \in 0..MaxCovPoints}

InitCoverage ==
    /\ pc = "cov_enter"
    /\ positions \in CovInputs
    /\ kmCaller = "none" /\ k = 0
    /\ DbIdle /\ KmcIdle /\ PkmIdle /\ AuxIdle

NextCoverage ==
    \/ CovEnter
    \/ CovMark
    \/ CovFinish

SpecCoverage == InitCoverage /\ [][NextCoverage]_vars

\* ------------------------------------------------------------------------
\* Properties of calculateCoverageMetrics (checked under SpecCoverage)
\* ------------------------------------------------------------------------
\* the weight of the covered cells and of all cells of a returned grid, row
\* by row: the cosine weight of the row times its number of cells
RECURSIVE WeightOfRows(_, _, _)
WeightOfRows(g, coveredOnly, n) ==
    IF n <= 0 THEN 0
    ELSE LET cells == {c \in 0..(GridCols - 1) : ~coveredOnly \/ g[n - 1][c].covered}
         IN  CellWeight(n - 1) * Cardinality(cells) + WeightOfRows(g, coveredOnly, n - 1)

\* C16: for any non-empty position set the coverage percentage is the
\* weight of the covered cells over the weight of all 144 cells, times 100,
\* and lies in [0, 100].
Thm_C16_CoveragePercentageInRange ==
    (pc = "cov_done" /\ covResult.returned /\ ArrayLen(positions) > 0) =>
        /\ covResult.coveredPercentage >= 0
        /\ covResult.coveredPercentage <= 100 * PctScale
        /\ covResult.coveredPercentage =
              (WeightOfRows(covResult.gridDistribution, TRUE, GridRows) * 100 * PctScale)
                  \div WeightOfRows(covResult.gridDistribution, FALSE, GridRows)

\* two positions in cells of different rows were counted: two cells are
\* covered and the percentage is above that of either cell alone
Wit_C16_TwoRowsCovered ==
    /\ pc = "cov_done" /\ covResult.returned /\ ArrayLen(positions) = 2
    /\ Cardinality(CoveredCells(covResult.gridDistribution)) = 2
    /\ \E a, b \in CoveredCells(covResult.gridDistribution) : a[1] # b[1]
    /\ covResult.coveredPercentage > 0
    /\ covResult.coveredPercentage < 100 * PctScale

\* C7: the 12 x 12 grid partitions latitude [-90, 90] x longitude
\* [-180, 180]: every valid position, latitude 90 and longitude 180 included,
\* increments the count of exactly one cell, so the cell counts add up to N,
\* and a cell is covered iff its count is positive.
Claim_C7_GridCountsEveryPosition ==
    (pc = "cov_done" /\ covResult.returned) =>
        /\ SumOverCells(covResult.gridDistribution, "count", GridRows)
              = ArrayLen(positions)
        /\ \A r \in 0..(GridRows - 1), c \in 0..(GridCols - 1) :
              covResult.gridDistribution[r][c].covered
                  <=> (covResult.gridDistribution[r][c].count > 0)

\* ------------------------------------------------------------------------
\* Descriptive statistics of the altitudes: displayAltitudeStatistics
\* (part_001:332-399), calculateMedian (402-413), createHistogramBins
\* (416-442), calculateRegionalAltitudes (445-471), calculateAltitudeTrend
\* (474-498)
\*
\* A position of these functions is <<lat, lng, altitude>>, the altitude in
\* whole km.  Means and medians are in units of 1/AltScale km, exact for up
\* to four values.  A snapshot of balloonData is a record with the fields
\* corrupted, error_type and positions that the functions read; timestamps
\* and the label strings of the bins are not modelled.
\* ------------------------------------------------------------------------
MaxAltPoints == 3       \* longest position list of the displayed snapshot
MaxSnapshots == 3       \* longest balloonData
AltScale == 12
NaN == 0 - 1000001      \* 0 / 0

\* positions.map(pos => pos[2]) (334, 483)
AltitudesOf(pos) == [x \in DOMAIN pos |-> pos[x][3]]

\* Math.min(...values) and Math.max(...values): Infinity and -Infinity for
\* an empty list (337-338)
RECURSIVE MinArray(_, _)
MinArray(a, n) == IF n <= 0 THEN Infinity ELSE Min(a[n - 1], MinArray(a, n - 1))

MathMin(values) == MinArray(values, ArrayLen(values))
MathMax(values) ==
    IF ArrayLen(values) = 0 THEN NegInfinity ELSE MaxArray(values, ArrayLen(values))

\* reduce(sum) / length (339, 484): 0 / 0 is NaN
MeanOf(values) ==
    IF ArrayLen(values) = 0 THEN NaN
    ELSE (SumArray(values, ArrayLen(values)) * AltScale) \div ArrayLen(values)

\* sort((a, b) => a - b) (405): ascending numeric order
RECURSIVE InsertAscending(_, _)
InsertAscending(sorted, v) ==
    IF sorted = <<>> THEN <<v>>
    ELSE IF v < Head(sorted) THEN <<v>> \o sorted
    ELSE <<Head(sorted)>> \o InsertAscending(Tail(sorted), v)

RECURSIVE SortAscendingFrom(_, _)
SortAscendingFrom(values, n) ==
    IF n <= 0 THEN <<>>
    ELSE InsertAscending(SortAscendingFrom(values, n - 1), values[n - 1])

SortAscending(values) ==
    LET s == SortAscendingFrom(values, ArrayLen(values))
    IN  [x \in DOMAIN values |-> s[x + 1]]

\* calculateMedian (402-413), the result in units of 1/AltScale
calculateMedian(values) ==
    IF ArrayLen(values) = 0 THEN 0
    ELSE LET sorted == SortAscending(values)
             middle == ArrayLen(sorted) \div 2
         IN  IF ArrayLen(sorted) % 2 = 0
             THEN ((sorted[middle - 1] + sorted[middle]) * AltScale) \div 2
             ELSE sorted[middle] * AltScale

\* the argument array after calculateMedian: "[...values].sort" sorts a copy (405)
ValuesAfterMedian_Mutant(values) == SortAscending(values)
ValuesAfterMedian(values) == values

\* Math.ceil(a / b) for b > 0
CeilDiv(a, b) == 0 - ((0 - a) \div b)

\* Array(numBins) at 421 throws a RangeError when numBins is not an array
\* length: with min = Infinity and max = -Infinity, the extremes of an empty
\* list, numBins = Math.ceil(-Infinity) = -Infinity
HistogramThrows(binSize, min, max) == min = Infinity \/ max = NegInfinity

\* the bin of a value (425)
BinIndexOf(value, binSize, min, numBins) ==
    Min((value - min) \div binSize, numBins - 1)

\* the forEach at 424-427; "bins[-1]++" sets a property and no element
RECURSIVE CountInto(_, _, _, _, _)
CountInto(bins, values, binSize, min, n) ==
    IF n <= 0 THEN bins
    ELSE LET prev == CountInto(bins, values, binSize, min, n - 1)
             binIndex == BinIndexOf(values[n - 1], binSize, min, ArrayLen(bins))
         IN  IF binIndex \in DOMAIN prev
             THEN [prev EXCEPT ![binIndex] = @ + 1]
             ELSE prev

\* createHistogramBins (416-442), for arguments it does not throw on
createHistogramBins(values, binSize, min, max) ==
    LET numBins == CeilDiv(max - min, binSize)
        bins == CountInto(ArrayFill(numBins, 0), values, binSize, min, ArrayLen(values))
    IN  [x \in DOMAIN bins |->
            [count |-> bins[x],
             lowerBound |-> min + (x * binSize),
             upperBound |-> min + ((x + 1) * binSize)]]

\* the filters of calculateRegionalAltitudes (447-450)
InHemisphere(p, which) ==
    IF which = "northern" THEN p[1] > 0
    ELSE IF which = "southern" THEN p[1] <= 0
    ELSE IF which = "eastern" THEN p[2] > 0
    ELSE p[2] <= 0

RECURSIVE SumAltitudeIn(_, _, _)
SumAltitudeIn(pos, which, n) ==
    IF n <= 0 THEN 0
    ELSE (IF InHemisphere(pos[n - 1], which) THEN pos[n - 1][3] ELSE 0)
         + SumAltitudeIn(pos, which, n - 1)

\* the average of one partition, 0 when it is empty (453-463)
HemisphereAvg(pos, which) ==
    LET cnt == Cardinality({x \in DOMAIN pos : InHemisphere(pos[x], which)})
    IN  IF cnt > 0 THEN (SumAltitudeIn(pos, which, ArrayLen(pos)) * AltScale) \div cnt ELSE 0

calculateRegionalAltitudes(pos) ==
    [northernAvg |-> HemisphereAvg(pos, "northern"),
     southernAvg |-> HemisphereAvg(pos, "southern"),
     easternAvg  |-> HemisphereAvg(pos, "eastern"),
     westernAvg  |-> HemisphereAvg(pos, "western")]

AltOthersUnchanged ==
    UNCHANGED <<dbVars, kmcVars, pkmVars, hullVars, covVars, repVars, fnVars, uiVars>>

\* displayAltitudeStatistics, 334-339: the altitudes and their extremes and mean
AltEnter ==
    /\ pc = "alt_enter"
    /\ altitudes' = AltitudesOf(positions)
    /\ altResult' = [returned |-> FALSE,
                     min |-> MathMin(altitudes'),
                     max |-> MathMax(altitudes'),
                     mean |-> MeanOf(altitudes'),
                     median |-> 0,
                     bins |-> EmptyArray,
                     regionData |-> calculateRegionalAltitudes(EmptyArray),
                     altitudeOverTime |-> <<>>]
    /\ pc' = "alt_median"
    /\ UNCHANGED <<positions, balloonData, currentTimeIndex, trendData, ti>>
    /\ AltOthersUnchanged

\* 340: the median
AltMedian ==
    /\ pc = "alt_median"
    /\ altResult' = [altResult EXCEPT !.median = calculateMedian(altitudes)]
    /\ altitudes' = ValuesAfterMedian(altitudes)
    /\ pc' = "alt_bins"
    /\ UNCHANGED <<positions, balloonData, currentTimeIndex, trendData, ti>>
    /\ AltOthersUnchanged

\* 343-344: the histogram with 2 km bins, or the RangeError of Array(numBins)
AltBins ==
    /\ pc = "alt_bins"
    /\ LET binSize == 2
       IN  IF HistogramThrows(binSize, altResult.min, altResult.max)
           THEN /\ pc' = "alt_threw"
                /\ altResult' = altResult
           ELSE /\ pc' = "alt_regions"
                /\ altResult' = [altResult EXCEPT !.bins =
                       createHistogramBins(altitudes, binSize, altResult.min, altResult.max)]
    /\ UNCHANGED <<positions, balloonData, currentTimeIndex, altitudes, trendData, ti>>
    /\ AltOthersUnchanged

\* 347: the hemisphere averages; 350 and 475: calculateAltitudeTrend is entered
AltRegions ==
    /\ pc = "alt_regions"
    /\ altResult' = [altResult EXCEPT !.regionData = calculateRegionalAltitudes(positions)]
    /\ trendData' = <<>>
    /\ ti' = 0
    /\ pc' = "alt_trend"
    /\ UNCHANGED <<positions, balloonData, currentTimeIndex, altitudes>>
    /\ AltOthersUnchanged

\* the test at 481: the snapshot is not flagged corrupted and has positions
TrendUses(timeData) == ~timeData.corrupted /\ ArrayLen(timeData.positions) > 0

\* one iteration of the loop of calculateAltitudeTrend (478-495)
AltTrendStep ==
    /\ pc = "alt_trend"
    /\ ti < ArrayLen(balloonData)
    /\ LET timeData == balloonData[ti]
           alts == AltitudesOf(timeData.positions)
       IN  trendData' = IF TrendUses(timeData)
                        THEN Append(trendData, [hour |-> ti,
                                                mean |-> MeanOf(alts),
                                                median |-> calculateMedian(alts),
                                                count |-> ArrayLen(alts)])
                        ELSE trendData
    /\ ti' = ti + 1
    /\ UNCHANGED <<pc, positions, balloonData, currentTimeIndex, altitudes, altResult>>
    /\ AltOthersUnchanged

\* calculateAltitudeTrend returns (497) and the statistics are complete
AltTrendReturn ==
    /\ pc = "alt_trend"
    /\ ti >= ArrayLen(balloonData)
    /\ altResult' = [altResult EXCEPT !.altitudeOverTime = trendData, !.returned = TRUE]
    /\ pc' = "alt_done"
    /\ UNCHANGED <<positions, balloonData, currentTimeIndex, altitudes, trendData, ti>>
    /\ AltOthersUnchanged

\* positions in the four quadrants with altitudes that are equal, 2 km
\* steps apart and in between
AltPositions ==
    {<<10, 20, 10>>, <<10, -20, 12>>, <<-10, 20, 13>>, <<0, 0, 14>>, <<-10, -20, 10>>}
AltLists == UNION {ArraysOf(n, AltPositions) : n \in 0..MaxAltPoints}

Snapshot(corrupted, error_type, pos) ==
    [corrupted |-> corrupted, error_type |-> error_type, positions |-> pos]

\* the snapshots of a longer balloonData: complete, complete without
\* balloons, partially corrupted (shown with a warning, 107-110), flagged
\* corrupted with recovered positions (shown with a notice, 93-106 and 116),
\* and not found
TrendSnapshots ==
    {Snapshot(FALSE, "none", ArrayPush(EmptyArray, <<10, 20, 10>>)),
     Snapshot(FALSE, "none", EmptyArray),
     Snapshot(FALSE, "partial_corruption",
              ArrayPush(ArrayPush(EmptyArray, <<10, 20, 10>>), <<0, 0, 14>>)),
     Snapshot(TRUE, "format_error", ArrayPush(EmptyArray, <<10, -20, 12>>)),
     Snapshot(TRUE, "not_found", EmptyArray)}

AltInputs ==
    {ArrayPush(EmptyArray, Snapshot(FALSE, "none", pos)) : pos \in AltLists}
        \cup UNION {ArraysOf(n, TrendSnapshots) : n \in 1..MaxSnapshots}

InitAltitudeStatistics ==
    /\ pc = "alt_enter"
    /\ balloonData \in AltInputs
    /\ currentTimeIndex \in DOMAIN balloonData
    /\ positions = balloonData[currentTimeIndex].positions
    /\ altitudes = <<>>
    /\ altResult = NoResult
    /\ trendData = <<>>
    /\ ti = 0
    /\ kmCaller = "none" /\ k = 0
    /\ DbIdle /\ KmcIdle /\ PkmIdle /\ HullIdle /\ CovIdle /\ RepIdle /\ FnIdle /\ UiIdle

NextAltitudeStatistics ==
    \/ AltEnter
    \/ AltMedian
    \/ AltBins
    \/ AltRegions
    \/ AltTrendStep
    \/ AltTrendReturn

SpecAltitudeStatistics == InitAltitudeStatistics /\ [][NextAltitudeStatistics]_vars

\* ------------------------------------------------------------------------
\* Properties of the altitude statistics (checked under SpecAltitudeStatistics)
\* ------------------------------------------------------------------------
\* createHistogramBins has returned
BinsReturned == pc \in {"alt_regions", "alt_trend", "alt_done"}
AltN == ArrayLen(positions)

\* the values a bin stands for: lowerBound <= value < upperBound, and in the
\* last bin also the values up to the maximum
InBin(value, bins, b, max) ==
    /\ bins[b].lowerBound <= value
    /\ \/ value < bins[b].upperBound
       \/ b = ArrayLen(bins) - 1 /\ value <= max

\* C17: createHistogramBins(values, binSize, min, max), min and max the
\* extremes of a non-empty list: it returns ceil((max - min) / binSize) bins,
\* each bin counts the values it stands for (the maximum in the last bin),
\* and the counts add up to the number of values, also when all values are
\* equal.
Claim_C17_HistogramCountsEveryValue ==
    (BinsReturned /\ AltN > 0) =>
        LET values == AltitudesOf(positions)
            bins == altResult.bins
            counts == [b \in DOMAIN bins |-> bins[b].count]
        IN  /\ ArrayLen(bins) = CeilDiv(altResult.max - altResult.min, 2)
            /\ \A b \in DOMAIN bins :
                  bins[b].count =
                      Cardinality({x \in DOMAIN values : InBin(values[x], bins, b, altResult.max)})
            /\ \A x \in DOMAIN values :
                  Cardinality({b \in DOMAIN bins :
                                  InBin(values[x], bins, b, altResult.max)}) = 1
            /\ SumArray(counts, ArrayLen(counts)) = AltN

\* calculateMedian has returned
MedianReturned == pc \in {"alt_bins", "alt_regions", "alt_trend", "alt_done", "alt_threw"}

\* the value of rank r (from 0) of a non-empty list, by counting
OrderStatistic(values, r) ==
    CHOOSE v \in {values[x] : x \in DOMAIN values} :
        /\ Cardinality({x \in DOMAIN values : values[x] < v}) <= r
        /\ Cardinality({x \in DOMAIN values : values[x] <= v}) > r

\* C18: calculateMedian returns the middle element of the sorted values for
\* an odd count and the average of the two central sorted values for an even
\* count, and the array handed to it keeps its order.
Thm_C18_MedianOfSortedCopy ==
    (MedianReturned /\ AltN > 0) =>
        LET values == AltitudesOf(positions)
            middle == AltN \div 2
        IN  /\ altResult.median =
                  IF AltN % 2 = 1
                  THEN OrderStatistic(values, middle) * AltScale
                  ELSE ((OrderStatistic(values, middle - 1) + OrderStatistic(values, middle))
                           * AltScale) \div 2
            /\ altitudes = values

\* Scenario A: the altitudes 14, 10, 12, handed over unsorted, give the
\* median 12 and are still in that order
Wit_C18_UnsortedOddList ==
    /\ MedianReturned /\ AltN = 3
    /\ altitudes[0] = 14 /\ altitudes[1] = 10 /\ altitudes[2] = 12
    /\ altResult.median = 12 * AltScale

\* the snapshots the trend is to cover: complete or with recoverable partial
\* data, and at least one usable position
HasUsablePositions(timeData) == ArrayLen(timeData.positions) > 0

\* C19: the series returned by calculateAltitudeTrend has exactly one entry
\* (hour, mean, median, count) for every snapshot with at least one usable
\* position, none for a snapshot without, and strictly increasing hours.
Claim_C19_TrendCoversUsableSnapshots ==
    (pc = "alt_done" /\ altResult.returned) =>
        LET series == altResult.altitudeOverTime
        IN  /\ \A h \in DOMAIN balloonData :
                  LET entries == {e \in DOMAIN series : series[e].hour = h}
                      alts == AltitudesOf(balloonData[h].positions)
                  IN  IF HasUsablePositions(balloonData[h])
                      THEN /\ Cardinality(entries) = 1
                           /\ \A e \in entries :
                                 /\ series[e].mean = MeanOf(alts)
                                 /\ series[e].median = calculateMedian(alts)
                                 /\ series[e].count = ArrayLen(alts)
                      ELSE entries = {}
            /\ \A e \in DOMAIN series : series[e].hour \in DOMAIN balloonData
            /\ \A e, f \in DOMAIN series : e < f => series[e].hour < series[f].hour

\* ------------------------------------------------------------------------
\* The analysis functions that return in one step:
\* calculateRegionalDistribution (part_001:941-960), identifyCoverageGaps
\* (963-1015), calculateDensityMetrics (1374-1418),
\* calculateDensityDistribution (1532-1627) with getRegionName (1630-1663),
\* and calculateClusterMetrics (2346-2436) handed a clustering result.
\* ------------------------------------------------------------------------
\* (count / positions.length) * 100 (954-958) in units of 1/PctScale percent;
\* 0 / 0 is NaN
PercentOf(count, n) == IF n = 0 THEN NaN ELSE (count * 100 * PctScale) \div n

\* the bands of 23.5 and 66.5 degrees, compared on doubled latitudes
calculateRegionalDistribution(pos) ==
    LET n == ArrayLen(pos)
        northern == Cardinality({x \in DOMAIN pos : pos[x][1] > 0})
        southern == Cardinality({x \in DOMAIN pos : pos[x][1] <= 0})
        equatorial == Cardinality({x \in DOMAIN pos : 2 * Abs(pos[x][1]) <= 47})
        polar == Cardinality({x \in DOMAIN pos : 2 * Abs(pos[x][1]) >= 133})
        temperate == n - equatorial - polar
    IN  [returned |-> TRUE, threw |-> FALSE,
         northern |-> northern, southern |-> southern, equatorial |-> equatorial,
         polar |-> polar, temperate |-> temperate,
         northernPercent |-> PercentOf(northern, n),
         southernPercent |-> PercentOf(southern, n),
         equatorialPercent |-> PercentOf(equatorial, n),
         polarPercent |-> PercentOf(polar, n),
         temperatePercent |-> PercentOf(temperate, n)]

\* identifyCoverageGaps: the named regions (966-971) and the region of each
\* cell of the 30-degree grid (974-984)
regions ==
    <<"North Pacific", "North Atlantic", "Arctic", "Northern Europe",
      "Russia", "North America", "Central Asia", "East Asia",
      "South Pacific", "South Atlantic", "Antarctica", "Africa",
      "Middle East", "South America", "Australia", "Indian Ocean">>
regionMap ==
    <<<<8, 0, 2, 3, 4, 5, 6, 7, 7, 8, 8, 8>>,
      <<8, 0, 2, 3, 4, 5, 6, 7, 7, 8, 8, 8>>,
      <<0, 0, 1, 3, 4, 5, 6, 7, 0, 0, 0, 0>>,
      <<0, 0, 1, 11, 12, 5, 13, 7, 0, 0, 0, 0>>,
      <<15, 15, 11, 11, 12, 13, 13, 15, 15, 15, 15, 15>>,
      <<15, 15, 11, 11, 12, 13, 13, 15, 15, 15, 15, 15>>,
      <<9, 9, 11, 11, 12, 13, 14, 15, 8, 8, 8, 9>>,
      <<9, 9, 9, 10, 10, 10, 14, 14, 8, 8, 8, 9>>,
      <<9, 9, 9, 10, 10, 10, 10, 10, 10, 9, 9, 9>>>>

\* the region a position is counted in (990-998), -1 when it is in no cell
RegionIndexOf_Mutant(p) ==
    LET latIndex == (90 + p[1]) \div 20
        lngIndex == (180 + p[2]) \div 30
    IN  IF latIndex >= 0 /\ latIndex < Len(regionMap)
           /\ lngIndex >= 0 /\ lngIndex < Len(regionMap[1])
        THEN regionMap[latIndex + 1][lngIndex + 1]
        ELSE -1
RegionIndexOf(p) ==
    LET latIndex == Min((90 + p[1]) \div 20, 8)
        lngIndex == Min((180 + p[2]) \div 30, 11)
    IN  IF latIndex >= 0 /\ latIndex < Len(regionMap)
           /\ lngIndex >= 0 /\ lngIndex < Len(regionMap[1])
        THEN regionMap[latIndex + 1][lngIndex + 1]
        ELSE -1

\* the scan at 1005-1008: the first region with the fewest and the first
\* with the most balloons; the labels of 1011-1012 as region and count
identifyCoverageGaps(pos) ==
    LET regionCounts ==
            [r \in 0..(Len(regions) - 1) |->
                Cardinality({x \in DOMAIN pos : RegionIndexOf(pos[x]) = r})]
        IsFirstMin(r) ==
            /\ \A q \in DOMAIN regionCounts : regionCounts[r] <= regionCounts[q]
            /\ \A q \in 0..(r - 1) : regionCounts[q] > regionCounts[r]
        IsFirstMax(r) ==
            /\ \A q \in DOMAIN regionCounts : regionCounts[r] >= regionCounts[q]
            /\ \A q \in 0..(r - 1) : regionCounts[q] < regionCounts[r]
        minRegion == CHOOSE r \in DOMAIN regionCounts : IsFirstMin(r)
        maxRegion == CHOOSE r \in DOMAIN regionCounts : IsFirstMax(r)
    IN  [returned |-> TRUE, threw |-> FALSE,
         largestGapRegion |->
             [region |-> regions[minRegion + 1], balloons |-> regionCounts[minRegion]],
         mostConcentratedRegion |->
             [region |-> regions[maxRegion + 1], balloons |-> regionCounts[maxRegion]],
         regionCounts |-> regionCounts]

\* calculateDensityMetrics: the loops at 1382-1405 over the ordered pairs
\* idx = i * n + j with i # j; power 1 adds the distances up (1392), power 2
\* their squares (1393)
RECURSIVE SumPairDistances(_, _, _)
SumPairDistances(pos, idx, power) ==
    IF idx <= 0 THEN 0
    ELSE LET n == ArrayLen(pos)
             x == (idx - 1) \div n
             y == (idx - 1) % n
             distance == PosDistance(pos, x, y)
         IN  (IF x = y THEN 0 ELSE IF power = 1 THEN distance ELSE distance * distance)
             + SumPairDistances(pos, idx - 1, power)

\* the nearest other position (1383, 1397), Infinity when there is none
NearestDistanceOf(pos, x) ==
    LET distances == {PosDistance(pos, x, y) : y \in DOMAIN pos \ {x}}
    IN  IF distances = {} THEN Infinity
        ELSE CHOOSE d \in distances : \A e \in distances : d <= e

\* 1402-1404: the nearest distances that are not Infinity, added up
RECURSIVE SumNearest(_, _)
SumNearest(pos, n) ==
    IF n <= 0 THEN 0
    ELSE (IF NearestDistanceOf(pos, n - 1) # Infinity
          THEN NearestDistanceOf(pos, n - 1) ELSE 0)
         + SumNearest(pos, n - 1)

\* Math.sqrt, rounded down to a whole number
MathSqrt(v) == CHOOSE r \in 0..20100 : r * r <= v /\ (r + 1) * (r + 1) > v

\* 1408-1411: the guarded ratios; distances in whole km
PairCount(n) == n * (n - 1)
calculateDensityMetrics(pos) ==
    LET n == ArrayLen(pos)
        totalDistance == SumPairDistances(pos, n * n, 1)
        distanceSquaredSum == SumPairDistances(pos, n * n, 2)
        distanceCount == PairCount(n)
        nearestNeighborSum == SumNearest(pos, n)
        meanDistance == IF distanceCount > 0 THEN totalDistance \div distanceCount ELSE 0
        variance == IF distanceCount > 0
                    THEN (distanceSquaredSum \div distanceCount) - (meanDistance * meanDistance)
                    ELSE 0
    IN  [returned |-> TRUE, threw |-> FALSE,
         meanDistance |-> meanDistance,
         variance |-> variance,
         stdDevDistance |-> MathSqrt(Max(0, variance)),
         nearestNeighborAvg |-> IF n > 0 THEN nearestNeighborSum \div n ELSE 0]

\* getRegionName: the regions in the order they are tried (1632-1646)
worldRegions ==
    <<[name |-> "North America",     lat |-> <<15, 70>>,   lng |-> <<-170, -50>>],
      [name |-> "South America",     lat |-> <<-60, 15>>,  lng |-> <<-90, -30>>],
      [name |-> "Europe",            lat |-> <<35, 70>>,   lng |-> <<-10, 40>>],
      [name |-> "Africa",            lat |-> <<-40, 35>>,  lng |-> <<-20, 50>>],
      [name |-> "Asia",              lat |-> <<0, 70>>,    lng |-> <<40, 150>>],
      [name |-> "Australia/Oceania", lat |-> <<-50, 0>>,   lng |-> <<110, 180>>],
      [name |-> "Antarctica",        lat |-> <<-90, -60>>, lng |-> <<-180, 180>>],
      [name |-> "Arctic",            lat |-> <<70, 90>>,   lng |-> <<-180, 180>>],
      [name |-> "North Atlantic",    lat |-> <<0, 70>>,    lng |-> <<-80, -10>>],
      [name |-> "South Atlantic",    lat |-> <<-60, 0>>,   lng |-> <<-70, 20>>],
      [name |-> "North Pacific",     lat |-> <<0, 70>>,    lng |-> <<150, -170>>],
      [name |-> "South Pacific",     lat |-> <<-60, 0>>,   lng |-> <<150, -70>>],
      [name |-> "Indian Ocean",      lat |-> <<-60, 30>>,  lng |-> <<50, 110>>]>>

\* the test of one region (1650-1659), with the ranges that cross the antimeridian
RegionMatches_Mutant(region, lat, lng) ==
    /\ lat >= region.lat[1] /\ lat <= region.lat[2]
    /\ lng >= region.lng[1] /\ lng <= region.lng[2]

RegionMatches(region, lat, lng) ==
    /\ lat >= region.lat[1] /\ lat <= region.lat[2]
    /\ IF region.lng[1] > region.lng[2]
       THEN lng >= region.lng[1] \/ lng <= region.lng[2]
       ELSE lng >= region.lng[1] /\ lng <= region.lng[2]

getRegionName(lat, lng) ==
    LET matching == {r \in DOMAIN worldRegions : RegionMatches(worldRegions[r], lat, lng)}
    IN  IF matching = {} THEN "Open Ocean"
        ELSE worldRegions[CHOOSE r \in matching : \A q \in matching : r <= q].name

\* calculateDensityDistribution: the grid of 10-degree cells (1542-1555),
\* cell number c in the order they are pushed
gridSize == 10
DensityCols == 360 \div gridSize
DensityCells == (180 \div gridSize) * DensityCols
DensityCellLat(c) == -90 + gridSize * (c \div DensityCols) + gridSize \div 2
DensityCellLng(c) == -180 + gridSize * (c % DensityCols) + gridSize \div 2

\* the differences of 1565-1566 to a row and to a column of cells
LatDiff(row, lat) == Abs(DensityCellLat(row * DensityCols) - lat)
LngDiff(col, lng) ==
    Min(Abs(DensityCellLng(col) - lng), 360 - Abs(DensityCellLng(col) - lng))

\* the scan at 1564-1574 keeps the first cell at the least distance
\* sqrt(latDiff^2 + lngDiff^2).  latDiff depends on the row only and lngDiff
\* on the column only, so the cells at the least distance are the rows of
\* least latDiff crossed with the columns of least lngDiff, and the first
\* of them in the order of the scan is the lowest such row and column.
nearestCell(p) ==
    LET rows == 0..((DensityCells \div DensityCols) - 1)
        cols == 0..(DensityCols - 1)
        row == CHOOSE r \in rows :
                   \A q \in rows : \/ LatDiff(r, p[1]) < LatDiff(q, p[1])
                                   \/ LatDiff(r, p[1]) = LatDiff(q, p[1]) /\ r <= q
        col == CHOOSE c \in cols :
                   \A d \in cols : \/ LngDiff(c, p[2]) < LngDiff(d, p[2])
                                   \/ LngDiff(c, p[2]) = LngDiff(d, p[2]) /\ c <= d
    IN  row * DensityCols + col

\* 1582-1593 and 1596-1623: the cell with the most balloons (the first one
\* among equals), the nearest-neighbour distance of every balloon and the
\* balloon with the largest one (the first one among equals)
calculateDensityDistribution(pos) ==
    IF ArrayLen(pos) = 0
    THEN [returned |-> TRUE, threw |-> FALSE,
          highestDensityRegion |-> "N/A", mostIsolatedRegion |-> "N/A",
          densityMap |-> <<>>, isolationScores |-> EmptyArray]
    ELSE LET cellOf == [x \in DOMAIN pos |-> nearestCell(pos[x])]
             counted == {cellOf[x] : x \in DOMAIN pos}
             count == [c \in counted |-> Cardinality({x \in DOMAIN pos : cellOf[x] = c})]
             highestDensityCell ==
                 CHOOSE c \in counted :
                     \A d \in counted : count[c] > count[d] \/ (count[c] = count[d] /\ c <= d)
             isolationScores ==
                 [x \in DOMAIN pos |->
                     [position |-> pos[x],
                      distance |-> NearestDistanceOf(pos, x),
                      region |-> getRegionName(pos[x][1], pos[x][2])]]
             mostIsolated ==
                 CHOOSE x \in DOMAIN pos :
                     \A y \in DOMAIN pos :
                         \/ isolationScores[x].distance > isolationScores[y].distance
                         \/ /\ isolationScores[x].distance = isolationScores[y].distance
                            /\ x <= y
         IN  [returned |-> TRUE, threw |-> FALSE,
              highestDensityRegion |->
                  [region |-> getRegionName(DensityCellLat(highestDensityCell),
                                            DensityCellLng(highestDensityCell)),
                   balloons |-> count[highestDensityCell]],
              mostIsolatedRegion |->
                  [region |-> isolationScores[mostIsolated].region,
                   distance |-> isolationScores[mostIsolated].distance],
              densityMap |-> count,
              isolationScores |-> isolationScores]

\* ------------------------------------------------------------------------
\* Every analysis function applied to a snapshot's positions: callee names
\* the function; the functions above return in one step into fnResult, the
\* others run as the step machines of their own sections.
\* ------------------------------------------------------------------------
FnOthersUnchanged ==
    UNCHANGED <<positions, callee, dbVars, kmcVars, pkmVars, hullVars, covVars, altVars,
                repVars, uiVars>>

FnRegionalDistribution ==
    /\ pc = "fn_enter"
    /\ callee = "calculateRegionalDistribution"
    /\ fnResult' = calculateRegionalDistribution(positions)
    /\ pc' = "fn_done"
    /\ FnOthersUnchanged

FnCoverageGaps ==
    /\ pc = "fn_enter"
    /\ callee = "identifyCoverageGaps"
    /\ fnResult' = identifyCoverageGaps(positions)
    /\ pc' = "fn_done"
    /\ FnOthersUnchanged

FnDensityMetrics ==
    /\ pc = "fn_enter"
    /\ callee = "calculateDensityMetrics"
    /\ fnResult' = calculateDensityMetrics(positions)
    /\ pc' = "fn_done"
    /\ FnOthersUnchanged

FnDensityDistribution ==
    /\ pc = "fn_enter"
    /\ callee = "calculateDensityDistribution"
    /\ fnResult' = calculateDensityDistribution(positions)
    /\ pc' = "fn_done"
    /\ FnOthersUnchanged

\* where each function starts
entryPc ==
    [displayAltitudeStatistics |-> "alt_enter",
     calculateCoverageMetrics |-> "cov_enter",
     calculateRegionalDistribution |-> "fn_enter",
     identifyCoverageGaps |-> "fn_enter",
     calculateDensityMetrics |-> "fn_enter",
     calculateClusteringMetrics |-> "db_enter",
     calculateDensityDistribution |-> "fn_enter",
     displayClusterStatistics |-> "pkm_enter"]

\* the snapshots the functions are applied to: none to MaxFnPoints balloons
\* on the equator for the functions that measure distances, anywhere for
\* those that read the latitude bands and regions, with altitudes for the
\* altitude statistics, and one or two groups of balloons for the cluster
\* analysis (two candidate groups at most, all in one place included)
MaxFnPoints == 3
FnLngs == {0, 4, 30}
FnEquatorLists == UNION {ArraysOf(n, {<<0, l>> : l \in FnLngs}) : n \in 0..MaxFnPoints}
FnPlaces == {<<-90, -180>>, <<0, 0>>, <<20, 179>>, <<70, 100>>, <<90, 180>>}
FnWorldLists == UNION {ArraysOf(n, FnPlaces) : n \in 0..(MaxFnPoints - 1)}
FnAltLists == UNION {ArraysOf(n, AltPositions) : n \in 0..(MaxFnPoints - 1)}
FnGroupLists ==
    {GroupedPositions(0, 0, 0), GroupedPositions(1, 0, 0),
     GroupedPositions(2 * PkmGroup, 0, 0), GroupedPositions(PkmGroup, PkmGroup, 0)}

inputsOf ==
    [displayAltitudeStatistics |-> FnAltLists,
     calculateCoverageMetrics |-> FnWorldLists,
     calculateRegionalDistribution |-> FnWorldLists,
     identifyCoverageGaps |-> FnWorldLists,
     calculateDensityMetrics |-> FnEquatorLists,
     calculateClusteringMetrics |-> FnEquatorLists,
     calculateDensityDistribution |-> FnEquatorLists,
     displayClusterStatistics |-> FnGroupLists]

InitAnalysisFunctions ==
    /\ callee \in DOMAIN entryPc
    /\ pc = entryPc[callee]
    /\ positions \in inputsOf[callee]
    /\ fnResult = NoResult
    /\ balloonData = IF callee = "displayAltitudeStatistics"
                     THEN ArrayPush(EmptyArray, Snapshot(FALSE, "none", positions))
                     ELSE <<>>
    /\ currentTimeIndex = 0 /\ altitudes = <<>> /\ altResult = NoResult
    /\ trendData = <<>> /\ ti = 0
    /\ kmCaller = IF callee = "displayClusterStatistics"
                  THEN "performKMeansClustering" ELSE "none"
    /\ k = 0
    /\ DbIdle /\ KmcIdle /\ PkmIdle /\ HullIdle /\ CovIdle /\ RepIdle /\ UiIdle

NextAnalysisFunctions ==
    \/ AltEnter
    \/ AltMedian
    \/ AltBins
    \/ AltRegions
    \/ AltTrendStep
    \/ AltTrendReturn
    \/ CovEnter
    \/ CovMark
    \/ CovFinish
    \/ FnRegionalDistribution
    \/ FnCoverageGaps
    \/ FnDensityMetrics
    \/ FnDensityDistribution
    \/ DbEnter
    \/ DbSkipVisited
    \/ DbMarkNoise
    \/ DbStartCluster
    \/ DbExpand
    \/ DbExpandDone
    \/ DbFinish
    \/ PkmEnter
    \/ PkmNextK
    \/ KmcEnter
    \/ KmcSeedFirst
    \/ KmcSeedNext
    \/ KmcAssign
    \/ KmcUpdate
    \/ KmcFinish
    \/ PkmScore
    \/ PkmReturn
    \/ DcsMetrics

SpecAnalysisFunctions == InitAnalysisFunctions /\ [][NextAnalysisFunctions]_vars

\* ------------------------------------------------------------------------
\* Properties of the analysis functions (checked under SpecAnalysisFunctions)
\* ------------------------------------------------------------------------
\* the function named has returned into fnResult
FnReturned(name) == pc = "fn_done" /\ callee = name
FnN == ArrayLen(positions)

\* C12: for an empty position list every analysis function returns a zero
\* or placeholder result and none throws: the altitude statistics do not
\* stop in an exception and hold zeros, the coverage metrics are zero counts
\* and distances, the regional distribution is zero counts and percentages,
\* every region of the coverage gaps counts 0 balloons, the density and
\* clustering metrics are 0, the density distribution holds "N/A" labels
\* and an empty map, the cluster analysis returns k = 0 with empty arrays
\* and its metrics are all 0.
Claim_C12_EmptyListZeroResults ==
    (FnN = 0) =>
        /\ pc \notin {"alt_threw", "dcs_threw"}
        /\ (pc = "alt_done") =>
              /\ altResult.min = 0 /\ altResult.max = 0
              /\ altResult.mean = 0 /\ altResult.median = 0
              /\ ArrayLen(altResult.bins) = 0
        /\ (pc = "cov_done") =>
              /\ covResult.density = 0
              /\ covResult.coveredPercentage = 0
              /\ covResult.maxGapDistance = 0
        /\ FnReturned("calculateRegionalDistribution") =>
              /\ fnResult.northern = 0 /\ fnResult.southern = 0
              /\ fnResult.equatorial = 0 /\ fnResult.polar = 0 /\ fnResult.temperate = 0
              /\ fnResult.northernPercent = 0 /\ fnResult.southernPercent = 0
              /\ fnResult.equatorialPercent = 0 /\ fnResult.polarPercent = 0
              /\ fnResult.temperatePercent = 0
        /\ FnReturned("identifyCoverageGaps") =>
              /\ \A r \in DOMAIN fnResult.regionCounts : fnResult.regionCounts[r] = 0
              /\ fnResult.largestGapRegion.balloons = 0
              /\ fnResult.mostConcentratedRegion.balloons = 0
        /\ FnReturned("calculateDensityMetrics") =>
              /\ fnResult.meanDistance = 0 /\ fnResult.stdDevDistance = 0
              /\ fnResult.nearestNeighborAvg = 0
        /\ (pc = "db_done") =>
              /\ dbResult.clusterCount = 0 /\ dbResult.avgClusterSizeNum = 0
              /\ dbResult.isolationIndex = 0 /\ dbResult.largestCluster = 0
        /\ FnReturned("calculateDensityDistribution") =>
              /\ fnResult.highestDensityRegion = "N/A"
              /\ fnResult.mostIsolatedRegion = "N/A"
              /\ fnResult.densityMap = <<>>
        /\ kMeansResults.returned =>
              /\ kMeansResults.k = 0
              /\ ArrayLen(kMeansResults.assignments) = 0
              /\ ArrayLen(kMeansResults.centroids) = 0
              /\ ArrayLen(kMeansResults.clusterSizes) = 0
        /\ clusterMetrics.returned => clusterMetrics = ZeroMetrics

\* all balloons of the snapshot are in one place: the total variance is zero
AllInOnePlace == \A x, y \in DOMAIN positions : positions[x] = positions[y]

\* C13: every ratio with a possibly-zero denominator is 0 when the
\* denominator is zero: the mean pairwise distance, the variance and the
\* nearest-neighbour average for at most one balloon, the average cluster
\* size without clusters, the isolation index without balloons, the average
\* inter-cluster distance for fewer than 2 centroids, the variance explained
\* when the total variance is zero, the average of a hemisphere without
\* balloons, and the regional percentages without balloons.
Claim_C13_ZeroDenominatorGivesZero ==
    /\ (FnReturned("calculateDensityMetrics") /\ FnN <= 1) =>
          /\ fnResult.meanDistance = 0 /\ fnResult.variance = 0
          /\ fnResult.nearestNeighborAvg = 0
    /\ (pc = "db_done" /\ dbResult.clusterCount = 0) => dbResult.avgClusterSizeNum = 0
    /\ (pc = "db_done" /\ FnN = 0) => dbResult.isolationIndex = 0
    /\ (clusterMetrics.returned /\ ArrayLen(kMeansResults.centroids) < 2) =>
          clusterMetrics.avgInterClusterDistance = 0
    /\ (clusterMetrics.returned /\ AllInOnePlace) => clusterMetrics.varianceExplained = 0
    /\ (pc \in {"alt_trend", "alt_done"}) =>
          /\ (\A x \in DOMAIN positions : ~InHemisphere(positions[x], "northern"))
                => altResult.regionData.northernAvg = 0
          /\ (\A x \in DOMAIN positions : ~InHemisphere(positions[x], "southern"))
                => altResult.regionData.southernAvg = 0
          /\ (\A x \in DOMAIN positions : ~InHemisphere(positions[x], "eastern"))
                => altResult.regionData.easternAvg = 0
          /\ (\A x \in DOMAIN positions : ~InHemisphere(positions[x], "western"))
                => altResult.regionData.westernAvg = 0
    /\ (FnReturned("calculateRegionalDistribution") /\ FnN = 0) =>
          /\ fnResult.northernPercent = 0 /\ fnResult.southernPercent = 0
          /\ fnResult.equatorialPercent = 0 /\ fnResult.polarPercent = 0
          /\ fnResult.temperatePercent = 0

\* C29: identifyCoverageGaps counts every valid position (latitude in
\* [-90, 90], longitude in [-180, 180], boundaries included) in exactly one
\* of the 16 named regions, so the region counts add up to N; the
\* largest-gap region is the first region in table order with the minimum
\* count and the most-concentrated region the first with the maximum count.
Thm_C29_EveryPositionInOneRegion ==
    FnReturned("identifyCoverageGaps") =>
        LET counts == fnResult.regionCounts
            least == CHOOSE v \in {counts[r] : r \in DOMAIN counts} :
                         \A r \in DOMAIN counts : v <= counts[r]
            most == CHOOSE v \in {counts[r] : r \in DOMAIN counts} :
                        \A r \in DOMAIN counts : v >= counts[r]
            firstWith(v) == CHOOSE r \in DOMAIN counts :
                                counts[r] = v /\ \A q \in 0..(r - 1) : counts[q] # v
        IN  /\ DOMAIN counts = 0..15
            /\ SumArray(counts, 16) = FnN
            /\ \A r \in DOMAIN counts : counts[r] >= 0
            /\ fnResult.largestGapRegion.balloons = least
            /\ fnResult.largestGapRegion.region = regions[firstWith(least) + 1]
            /\ fnResult.mostConcentratedRegion.balloons = most
            /\ fnResult.mostConcentratedRegion.region = regions[firstWith(most) + 1]

\* a balloon at latitude 90 and longitude 180 and one at -90, -180 were
\* counted, in two regions that tie for the maximum
Wit_C29_BoundaryPositionsCounted ==
    /\ FnReturned("identifyCoverageGaps")
    /\ FnN = 2
    /\ \E x, y \in DOMAIN positions :
          positions[x] = <<90, 180>> /\ positions[y] = <<-90, -180>>
    /\ Cardinality({r \in DOMAIN fnResult.regionCounts : fnResult.regionCounts[r] = 1}) = 2
    /\ fnResult.mostConcentratedRegion.balloons = 1


\* ------------------------------------------------------------------------
\* The functions of one or two positions applied on their own:
\* haversineDistance (1018-1036) and getRegionName (1630-1663).
\*
\* haversineDistance is applied to positions on the great circle of the
\* meridians 0 and 180 (lon is -180, 0 or 180, lat is any whole degree).
\* There sin^2(dLon/2) is 0 (same meridian, dLon 0 or +-360) or 1 (opposite
\* meridians), so that
\*   a = sin^2(dLat/2)                         on the same meridian,
\*   a = sin^2(dLat/2) + cos(lat1)*cos(lat2)   on opposite meridians,
\* which is sin^2(arc/2) for the arc between the two positions along the
\* circle.  The code computes a in double precision and does not clamp it.
\* For antipodal positions the exact a is 1; when both latitudes are away
\* from the equator and the poles the two terms are rounded sines and
\* cosines (Math.sin and Math.cos are implementation-approximated), and
\* their sum is 1 or the next double above or below 1: roundedUp says that
\* the sum came out above 1.  Then Math.sqrt(1 - a) is NaN, Math.atan2 of
\* it is NaN and the function returns NaN.
\* ------------------------------------------------------------------------
MeridianLngs == {0 - 180, 0, 180}

\* dLon / 2 is a multiple of 180 degrees: sin^2(dLon/2) = 0
SameMeridian(lon1, lon2) == (lon2 - lon1) % 360 = 0

\* the angle of c = 2 * atan2(sqrt(a), sqrt(1 - a)) in whole degrees (1029-1033)
MeridianArc(lat1, lon1, lat2, lon2) ==
    IF SameMeridian(lon1, lon2) THEN Abs(lat2 - lat1) ELSE 180 - Abs(lat1 + lat2)

\* the sum a (1029-1032) is made of rounded terms and its exact value is 1
TermRoundsAtOne(lat1, lon1, lat2, lon2) ==
    /\ MeridianArc(lat1, lon1, lat2, lon2) = 180
    /\ Abs(lat1) \notin {0, 90}

haversineDistanceRounded(lat1, lon1, lat2, lon2, roundedUp) ==
    IF TermRoundsAtOne(lat1, lon1, lat2, lon2) /\ roundedUp
    THEN NaN
    ELSE (MeridianArc(lat1, lon1, lat2, lon2) * MetresPerDegree) \div 1000

\* JavaScript ==  on numbers: NaN equals nothing, itself included
JsEquals(x, y) == x # NaN /\ y # NaN /\ x = y

\* haversineDistance applied to the positions a = positions[0] and
\* b = positions[1] in both orders and to each of them with itself.  The
\* rounding of a is the same in both orders: dLat and dLon change sign only,
\* the sines are squared and the product of the cosines commutes.
FnHaversineDistance ==
    /\ pc = "fn_enter"
    /\ callee = "haversineDistance"
    /\ \E roundedUp \in BOOLEAN :
         LET a == positions[0]
             b == positions[1]
         IN  fnResult' =
                 [returned |-> TRUE, threw |-> FALSE,
                  distanceAA |-> haversineDistanceRounded(a[1], a[2], a[1], a[2], roundedUp),
                  distanceBB |-> haversineDistanceRounded(b[1], b[2], b[1], b[2], roundedUp),
                  distanceAB |-> haversineDistanceRounded(a[1], a[2], b[1], b[2], roundedUp),
                  distanceBA |-> haversineDistanceRounded(b[1], b[2], a[1], a[2], roundedUp)]
    /\ pc' = "fn_done"
    /\ FnOthersUnchanged

\* getRegionName applied to positions[0]
FnGetRegionName ==
    /\ pc = "fn_enter"
    /\ callee = "getRegionName"
    /\ fnResult' = [returned |-> TRUE, threw |-> FALSE,
                    name |-> getRegionName(positions[0][1], positions[0][2])]
    /\ pc' = "fn_done"
    /\ FnOthersUnchanged

\* the positions the two functions are applied to: the poles, the equator
\* and two latitudes on each side of it on the meridian circle; for the
\* region names the borders of the latitude bands and of the longitude
\* ranges on both sides of the antimeridian
GeoLats == {0 - 90, 0 - 58, 0 - 12, 0, 12, 58, 90}
GeoPoints == {<<lat, lng>> : lat \in GeoLats, lng \in MeridianLngs}
RegionLats == {0 - 61, 0 - 1, 0, 1, 14, 15, 35, 69, 70, 71}
RegionLngs == {0 - 180, 0 - 171, 0 - 170, 0 - 169, 0 - 60, 0, 100, 149, 150, 151, 179, 180}
RegionPoints == {<<lat, lng>> : lat \in RegionLats, lng \in RegionLngs}

InitGeoFunctions ==
    /\ callee \in {"haversineDistance", "getRegionName"}
    /\ pc = "fn_enter"
    /\ positions \in IF callee = "haversineDistance"
                     THEN ArraysOf(2, GeoPoints)
                     ELSE ArraysOf(1, RegionPoints)
    /\ fnResult = NoResult
    /\ kmCaller = "none" /\ k = 0
    /\ DbIdle /\ KmcIdle /\ PkmIdle /\ HullIdle /\ CovIdle /\ AltIdle /\ RepIdle /\ UiIdle

NextGeoFunctions ==
    \/ FnHaversineDistance
    \/ FnGetRegionName

SpecGeoFunctions == InitGeoFunctions /\ [][NextGeoFunctions]_vars

\* C22: haversineDistance gives distance(a, a) == 0 and
\* distance(a, b) == distance(b, a) for all valid positions a and b, with the
\* equality of the language the function is written in.
Claim_C22_DistanceZeroAndSymmetric ==
    FnReturned("haversineDistance") =>
        /\ JsEquals(fnResult.distanceAA, 0)
        /\ JsEquals(fnResult.distanceBB, 0)
        /\ JsEquals(fnResult.distanceAB, fnResult.distanceBA)

\* C30: a position with a latitude strictly between 0 and 70 and a longitude
\* above 150 or below -170 is named "North Pacific": the range 150..-170
\* wraps around the antimeridian, and no earlier entry of the table matches.
Thm_C30_NorthPacificWrapsAround ==
    FnReturned("getRegionName") =>
        LET lat == positions[0][1]
            lng == positions[0][2]
        IN  (lat > 0 /\ lat < 70 /\ (lng > 150 \/ lng < 0 - 170))
                => fnResult.name = "North Pacific"

\* a position west of -170 degrees in the latitudes of North America, on
\* the far side of the antimeridian from the range's lower bound 150
Wit_C30_NamedAcrossAntimeridian ==
    /\ FnReturned("getRegionName")
    /\ positions[0] = <<35, 0 - 171>>
    /\ fnResult.name = "North Pacific"

\* ------------------------------------------------------------------------
\* The page: displayBalloonsAtTime (76-156), the event listeners (194-253),
\* clearStatsVisualizations (256-295), updateStatistics (298-329), the five
\* display functions with their charts and map layers, and the chart-type
\* radios (539-547, 1077-1085, 1713-1721, 2510-2521).
\*
\* A handler runs to completion, so every event is one action.  What is on
\* the page carries its origin: the statistics type it was computed for and
\* the index of the snapshot it was computed from.  statsOverlays holds the
\* kinds of layer that were pushed, not one entry per balloon.
\* ------------------------------------------------------------------------
MaxShownSnapshots == 2  \* longest balloonData shown on the page

Layer(kind, type, t) == [layer |-> kind, of |-> type, snapshot |-> t]
Chart(kind, type, t) == [set |-> TRUE, chart |-> kind, of |-> type, snapshot |-> t]
Legend(type, t) == [set |-> TRUE, of |-> type, snapshot |-> t]
Content(type, t) == [set |-> TRUE, of |-> type, snapshot |-> t]
\* the radios of .chart-options and the data their listeners close over
Options(type, t, checked) == [set |-> TRUE, of |-> type, snapshot |-> t, checked |-> checked]

\* the values of the radios each display function writes, the checked one first
chartTypes ==
    [altitude |-> <<"histogram", "trend">>,
     coverage |-> <<"hemispheres", "latitudinal">>,
     density  |-> <<"density", "isolation">>,
     clusters |-> <<"elbow", "silhouette", "clusters">>]

\* the page as one record
shown ==
    [currentTimeIndex |-> currentTimeIndex, timeSlider |-> timeSlider, markers |-> markers,
     statsOverlays |-> statsOverlays, statsChart |-> statsChart,
     altitudeLegend |-> altitudeLegend, densityLegend |-> densityLegend,
     clusterLegend |-> clusterLegend, coverageLegend |-> coverageLegend,
     chartOptions |-> chartOptions, statsContent |-> statsContent, uncaught |-> uncaught]

Show(d) ==
    /\ currentTimeIndex' = d.currentTimeIndex
    /\ timeSlider' = d.timeSlider
    /\ markers' = d.markers
    /\ statsOverlays' = d.statsOverlays
    /\ statsChart' = d.statsChart
    /\ altitudeLegend' = d.altitudeLegend
    /\ densityLegend' = d.densityLegend
    /\ clusterLegend' = d.clusterLegend
    /\ coverageLegend' = d.coverageLegend
    /\ chartOptions' = d.chartOptions
    /\ statsContent' = d.statsContent
    /\ uncaught' = d.uncaught

\* clearStatsVisualizations (256-295): the layers, the four legends and the
\* chart; the radios of .chart-options and the numbers tab stay
clearStatsVisualizations(d) ==
    [d EXCEPT !.statsOverlays = {}, !.altitudeLegend = null, !.densityLegend = null,
              !.clusterLegend = null, !.coverageLegend = null, !.statsChart = null]

\* create<Type>Chart (501-548, 1039-1087, 1666-1722, 2469-2522): the radios
\* are rewritten with the first one checked, the default chart is created
\* and the listeners close over the data of this call
createChart(d, type, t) ==
    [d EXCEPT !.statsChart = Chart(chartTypes[type][1], type, t),
              !.chartOptions = Options(type, t, chartTypes[type][1])]

\* displayAltitudeStatistics (332-399) with visualizeAltitudes (660-742)
displayAltitudeStatistics(d, t, visualize) ==
    LET charted == createChart([d EXCEPT !.statsContent = Content("altitude", t)],
                               "altitude", t)
    IN  IF visualize
        THEN [charted EXCEPT
                 !.statsOverlays = @ \cup {Layer("marker", "altitude", t),
                                           Layer("legend", "altitude", t)},
                 !.altitudeLegend = Legend("altitude", t)]
        ELSE charted

\* displayBasicStatistics (744-753)
displayBasicStatistics(d, t, visualize) ==
    [d EXCEPT !.statsContent = Content("basic", t)]

\* visualizeCoverage (1212-1303) destructures grid from its second argument
\* and calls grid.forEach: a TypeError when the argument has no grid
visualizeCoverage(d, t, coverageData) ==
    IF "grid" \in DOMAIN coverageData
    THEN [d EXCEPT
             !.statsOverlays = @ \cup {Layer("cell", "coverage", t),
                                       Layer("marker", "coverage", t),
                                       Layer("legend", "coverage", t)},
             !.coverageLegend = Legend("coverage", t)]
    ELSE [d EXCEPT !.uncaught = "TypeError"]

\* displayCoverageStatistics (756-821): visualizeCoverage is given the
\* result of identifyCoverageGaps (820)
displayCoverageStatistics(d, t, visualize) ==
    LET coverageGaps == identifyCoverageGaps(balloonData[t].positions)
        charted == createChart([d EXCEPT !.statsContent = Content("coverage", t)],
                               "coverage", t)
    IN  IF visualize THEN visualizeCoverage(charted, t, coverageGaps) ELSE charted

\* the balloons of a shown snapshot are all in one place: calculateClusteringMetrics
\* finds one cluster when there are minPoints of them, and none otherwise
ClusterCountInOnePlace(n) == IF n >= minPoints THEN 1 ELSE 0

\* displayDensityStatistics (1306-1372) with visualizeDensity (1843-1972),
\* which draws only when there is a cluster (1845)
displayDensityStatistics(d, t, visualize) ==
    LET charted == createChart([d EXCEPT !.statsContent = Content("density", t)],
                               "density", t)
    IN  IF visualize /\ ClusterCountInOnePlace(ArrayLen(balloonData[t].positions)) > 0
        THEN [charted EXCEPT
                 !.statsOverlays = @ \cup {Layer("marker", "density", t),
                                           Layer("circle", "density", t),
                                           Layer("legend", "density", t)},
                 !.densityLegend = Legend("density", t)]
        ELSE charted

\* displayClusterStatistics (1999-2058) with visualizeClusters (2733-2884).
\* With fewer than 20 balloons kRange is empty, the result has k = 2 and no
\* assignments, and calculateClusterMetrics throws at 2363-2366 before
\* anything is written.  Whether a hull polygon is drawn (2796-2808) is up
\* to calculateConvexHull: hullDrawn.
displayClusterStatistics(d, t, visualize, hullDrawn) ==
    IF KRangeOf(ArrayLen(balloonData[t].positions)) = <<>>
    THEN [d EXCEPT !.uncaught = "TypeError"]
    ELSE LET charted == createChart([d EXCEPT !.statsContent = Content("clusters", t)],
                                    "clusters", t)
         IN  IF visualize
             THEN [charted EXCEPT
                      !.statsOverlays =
                          @ \cup {Layer("marker", "clusters", t),
                                  Layer("centroid", "clusters", t),
                                  Layer("legend", "clusters", t)}
                            \cup (IF hullDrawn THEN {Layer("polygon", "clusters", t)}
                                  ELSE {}),
                      !.clusterLegend = Legend("clusters", t)]
             ELSE charted

\* updateStatistics (298-329), reading the selector and the checkbox
updateStatistics(d, statsType, shouldVisualize, hullDrawn) ==
    LET cleared == clearStatsVisualizations(d)
        t == d.currentTimeIndex
    IN  IF ArrayLen(balloonData[t].positions) = 0
        THEN [cleared EXCEPT !.statsContent = Content("No data available", t)]
        ELSE CASE statsType = "altitude" -> displayAltitudeStatistics(cleared, t, shouldVisualize)
               [] statsType = "basic" -> displayBasicStatistics(cleared, t, shouldVisualize)
               [] statsType = "coverage" -> displayCoverageStatistics(cleared, t, shouldVisualize)
               [] statsType = "density" -> displayDensityStatistics(cleared, t, shouldVisualize)
               [] statsType = "clusters" ->
                      displayClusterStatistics(cleared, t, shouldVisualize, hullDrawn)

\* displayBalloonsAtTime (76-156)
displayBalloonsAtTime(d, timeIndex, statsType, shouldVisualize, hullDrawn) ==
    LET timeData == balloonData[timeIndex]
        cleared == clearStatsVisualizations([d EXCEPT !.markers = 0,
                                                      !.timeSlider = timeIndex])
    IN  IF timeData.corrupted /\ ArrayLen(timeData.positions) = 0
        THEN cleared
        ELSE updateStatistics([cleared EXCEPT !.markers = ArrayLen(timeData.positions),
                                              !.currentTimeIndex = timeIndex],
                              statsType, shouldVisualize, hullDrawn)

PageOthersUnchanged ==
    UNCHANGED <<positions, balloonData, altitudes, altResult, trendData, ti, dbVars, kmcVars,
                pkmVars, hullVars, covVars, repVars, fnVars>>

\* fetchBalloonData (49-73): the data has arrived and the newest snapshot is shown
FetchBalloonData ==
    /\ pc = "page_loading"
    /\ \E hullDrawn \in BOOLEAN :
         Show(displayBalloonsAtTime([shown EXCEPT !.uncaught = "none"], 0,
                                    statisticsSelector, visualizeStats, hullDrawn))
    /\ lastHandler' = "displayBalloonsAtTime"
    /\ pc' = "page_ready"
    /\ UNCHANGED <<statisticsSelector, visualizeStats>>
    /\ PageOthersUnchanged

\* 'input' on the time slider (197-200)
TimeSliderInput ==
    /\ pc = "page_ready"
    /\ \E timeIndex \in DOMAIN balloonData \ {timeSlider}, hullDrawn \in BOOLEAN :
         Show(displayBalloonsAtTime([shown EXCEPT !.uncaught = "none"], timeIndex,
                                    statisticsSelector, visualizeStats, hullDrawn))
    /\ lastHandler' = "displayBalloonsAtTime"
    /\ UNCHANGED <<pc, statisticsSelector, visualizeStats>>
    /\ PageOthersUnchanged

\* 'change' on the statistics selector (219-221)
StatisticsSelectorChange ==
    /\ pc = "page_ready"
    /\ \E statsType \in DOMAIN chartTypes \cup {"basic"}, hullDrawn \in BOOLEAN :
         /\ statsType # statisticsSelector
         /\ statisticsSelector' = statsType
         /\ Show(updateStatistics([shown EXCEPT !.uncaught = "none"], statsType,
                                  visualizeStats, hullDrawn))
    /\ lastHandler' = "updateStatistics"
    /\ UNCHANGED <<pc, visualizeStats>>
    /\ PageOthersUnchanged

\* 'change' on the visualize checkbox (225-227)
VisualizeStatsChange ==
    /\ pc = "page_ready"
    /\ visualizeStats' = ~visualizeStats
    /\ \E hullDrawn \in BOOLEAN :
         Show(updateStatistics([shown EXCEPT !.uncaught = "none"], statisticsSelector,
                               visualizeStats', hullDrawn))
    /\ lastHandler' = "updateStatistics"
    /\ UNCHANGED <<pc, statisticsSelector>>
    /\ PageOthersUnchanged

\* 'change' on a chart-type radio: the listener added by the create<Type>Chart
\* call that wrote the radios creates the chart from the data of that call
ChartTypeChange ==
    /\ pc = "page_ready"
    /\ chartOptions # null
    /\ \E x \in DOMAIN chartTypes[chartOptions.of] :
         LET value == chartTypes[chartOptions.of][x]
         IN  /\ value # chartOptions.checked
             /\ Show([shown EXCEPT
                         !.statsChart = Chart(value, chartOptions.of, chartOptions.snapshot),
                         !.chartOptions = [@ EXCEPT !.checked = value],
                         !.uncaught = "none"])
    /\ lastHandler' = "chartTypeChange"
    /\ UNCHANGED <<pc, statisticsSelector, visualizeStats>>
    /\ PageOthersUnchanged

\* the snapshots of the page: two and twenty balloons in one place, a
\* complete snapshot without balloons, one flagged corrupted with recovered
\* positions and one that was not found
Balloons(n) == ArrayFill(n, <<0, 0, 10>>)
ShownSnapshots ==
    {Snapshot(FALSE, "none", Balloons(2)),
     Snapshot(FALSE, "none", Balloons(2 * PkmGroup)),
     Snapshot(FALSE, "none", EmptyArray),
     Snapshot(TRUE, "format_error", Balloons(minPoints)),
     Snapshot(TRUE, "not_found", EmptyArray)}

InitPage ==
    /\ pc = "page_loading"
    /\ balloonData \in UNION {ArraysOf(n, ShownSnapshots) : n \in 1..MaxShownSnapshots}
    /\ statisticsSelector \in DOMAIN chartTypes \cup {"basic"}
    /\ visualizeStats \in BOOLEAN
    /\ lastHandler = "none"
    /\ currentTimeIndex = 0 /\ timeSlider = 0 /\ markers = 0
    /\ statsOverlays = {} /\ statsChart = null
    /\ altitudeLegend = null /\ densityLegend = null /\ clusterLegend = null
    /\ coverageLegend = null /\ chartOptions = null /\ statsContent = null
    /\ uncaught = "none"
    /\ positions = EmptyArray
    /\ altitudes = <<>> /\ altResult = NoResult /\ trendData = <<>> /\ ti = 0
    /\ kmCaller = "none" /\ k = 0
    /\ DbIdle /\ KmcIdle /\ PkmIdle /\ HullIdle /\ CovIdle /\ RepIdle /\ FnIdle

NextPage ==
    \/ FetchBalloonData
    \/ TimeSliderInput
    \/ StatisticsSelectorChange
    \/ VisualizeStatsChange
    \/ ChartTypeChange

SpecPage == InitPage /\ [][NextPage]_vars

\* ------------------------------------------------------------------------
\* Properties of the page (checked under SpecPage)
\* ------------------------------------------------------------------------
\* C26: after displayBalloonsAtTime(t) has returned, currentTimeIndex is t,
\* the index the time slider shows, for every snapshot, one that is corrupted
\* and without positions included; a later updateStatistics then reads the
\* snapshot the slider shows.
Claim_C26_CurrentTimeIndexIsShown ==
    (pc = "page_ready") => currentTimeIndex = timeSlider

\* C25: coverage analysis with "Visualize on map" on a snapshot with
\* balloons completes without an error, and the grid-cell layers and the
\* coverage legend are on the map.
Claim_C25_CoverageVisualized ==
    (/\ lastHandler = "updateStatistics"
     /\ statisticsSelector = "coverage" /\ visualizeStats
     /\ ArrayLen(balloonData[currentTimeIndex].positions) > 0)
        => /\ uncaught = "none"
           /\ coverageLegend # null
           /\ \E o \in statsOverlays : o.layer = "cell"

\* C21: whatever requests were made, every layer in statsOverlays, every
\* legend and the chart were computed for the statistics type selected now
\* and from the snapshot the time slider shows now.
IsCurrent(x) == x.of = statisticsSelector /\ x.snapshot = timeSlider
Claim_C21_OnlyLatestRequestShown ==
    (pc = "page_ready") =>
        /\ \A o \in statsOverlays : IsCurrent(o)
        /\ \A legend \in {altitudeLegend, densityLegend, clusterLegend, coverageLegend} :
               legend # null => IsCurrent(legend)
        /\ statsChart # null => IsCurrent(statsChart)
====
